---------------------------- MODULE Spec2Model ----------------------------
(***************************************************************************)
(* Upload orchestration of fmu-sumo-uploader.                              *)
(*                                                                         *)
(* The model covers                                                        *)
(*   - SumoFile.upload_to_sumo      (src/fmu/sumo/uploader/_sumofile.py)   *)
(*   - _upload_files, _upload_file, upload_files                           *)
(*                                  (src/fmu/sumo/uploader/_upload_files.py)*)
(*   - SumoCase.__init__, SumoCase.upload                                  *)
(*                                  (src/fmu/sumo/uploader/_sumocase.py)   *)
(*   - CaseOnDisk.__init__, add_files, register                            *)
(*                                  (src/fmu/sumo/uploader/caseondisk.py)  *)
(*   - create_parameter_file        (src/fmu/sumo/uploader/_upload_files.py)*)
(*   - FileOnDisk.__init__, FileOnJob.__init__                             *)
(*                    (src/fmu/sumo/uploader/_fileondisk.py, _fileonjob.py)*)
(*   - sumo_upload_main             (src/fmu/sumo/uploader/scripts/        *)
(*                                   sumo_upload.py)                       *)
(* One action is one step of a worker thread or of the coordinator between *)
(* two calls to the outside (store, subprocess, filesystem).  The store,   *)
(* the SEGYImport subprocess and the filesystem are the environment: the   *)
(* outcome of each of their calls is chosen with \E.                       *)
(*                                                                         *)
(* Texts are modelled by their length.  Units are named by their position  *)
(* in the batch; the object id the store issues for the POST of unit u is  *)
(* ObjectIdFor(u) (the store issues a distinct id for every object).       *)
(*                                                                         *)
(* _upload_file hands the store handle over with the keyword               *)
(* sumo_connection while upload_to_sumo names the parameter sumoclient;    *)
(* the model binds the handle to that parameter.  Likewise                 *)
(* CaseOnDisk.__init__ hands sumo_mode to SumoCase.__init__, which has no  *)
(* such parameter and stores no mode; the model constructs the case and    *)
(* keeps the mode the caller gave as case_mode.                            *)
(***************************************************************************)
EXTENDS Integers, Sequences, FiniteSets, TLC

(* ------------------------------ bounds --------------------------------- *)

MaxFiles == 2      \* largest batch handed to upload_files
MaxThreads == 2    \* largest worker count (fewer than, as many as, more than files)

(* --------------------------- program constants ------------------------- *)

MaxText == 250     \* truncation of the rejected text
ShortText == 40    \* length of a short response text
LongText == 300    \* length of a response text longer than MaxText
GuardText == 90    \* length of the missing-parent message

None == 0          \* absent number (status code, object id, text), Python None
NoStatus == "none" \* result without a "status" key
CaseUuid == "case" \* the parent id of a registered case
NoParent == "None" \* sumo_parent_id is None

Formats == {"segy", "openvds", "irap_binary"}
SeismicFormats == {"openvds", "segy"}

(* ------------------------------- state --------------------------------- *)

VARIABLES
    platform,          \* sys.platform of the run
    threads,           \* worker count given to upload_files
    sumo_mode,         \* transfer mode given to upload_files
    sumo_parent_id,    \* parent id given to upload_files
    metadata,          \* metadata[u].format: data.format of unit u
    sumo_object_id,    \* file.sumo_object_id of unit u
    file_parent_id,    \* file.sumo_parent_id of unit u
    path,              \* path[u]: the disk path unit u was built from
    on_disk,           \* on_disk[p]: data file / sidecar at path p exist
    pc,                \* position of unit u in the pool and in upload_to_sumo
    result,            \* the result dict of unit u
    upload_response,   \* local upload_response (status_code) of unit u
    calls,             \* calls[u]: store/subprocess calls made for unit u
    sent_format,       \* data.format in the metadata POST of unit u
    outcome,           \* what the environment answered to unit u
    objects,           \* store: ids of the metadata objects that exist
    blobs,             \* store: ids of the objects that have a blob
    queue,             \* executor work queue (units not yet taken)
    phase,             \* position of upload_files
    idx,               \* classification loop: next result to classify
    ok_uploads, failed_uploads, rejected_uploads,
    raised,            \* the exception upload_files raised, or "none"
    case_pc,           \* position of the caller of the case object
    case_metadata,     \* what the case metadata file holds
    case_mode,         \* sumo_mode given to CaseOnDisk
    case_parent_id,    \* case._sumo_parent_id
    candidates,        \* candidates[p]: the file at path p and its sidecar
                       \* (empty where the sidecars are not looked at)
    added,             \* add_files was called
    files,             \* case._files, as positions in candidates
    skipped,           \* number of "No metadata, skipping file" warnings
    warnings,          \* kinds of the other warnings issued so far
    case_return,       \* what upload() returned
    uploads,           \* number of upload calls so far
    calls_allowed,     \* how many upload() calls the caller makes
    summary,           \* the upload_summary of the last returned upload()
    timings,           \* elapsed times of the ok results given to the statistics
    upload_statistics, \* upload_statistics of upload()
    disk_file,         \* disk_file[p]: bytes of the data file at path p, and
                       \* whether its sidecar has fmu.realization
    parameters_env,    \* parameters record in the store, configuration file
                       \* and parameters file on disk
    byte_string,       \* file.byte_string of unit u
    blob_digest,       \* file.metadata["_sumo"] of unit u
    realization,       \* "realization" in file.metadata["fmu"] of unit u
    sent_payload       \* digest in the metadata POST of unit u and bytes of
                       \* its blob transfer

vars == << platform, threads, sumo_mode, sumo_parent_id, metadata,
           sumo_object_id, file_parent_id, path, on_disk, pc, result,
           upload_response, calls, sent_format, outcome, objects, blobs,
           queue, phase, idx, ok_uploads, failed_uploads, rejected_uploads,
           raised, case_pc, case_metadata, case_mode, case_parent_id,
           candidates, added, files, skipped, warnings, case_return,
           uploads, calls_allowed, summary, timings, upload_statistics, disk_file,
           parameters_env, byte_string, blob_digest, realization,
           sent_payload >>

Units == DOMAIN metadata

(* Variant: the store answers a repeated POST of a unit with the id it    *)
(* issued the first time.                                                  *)
ObjectIdFor_Deduplicated(u) == 100 + u

(* The store issues a distinct object id with every accepted metadata POST. *)
ObjectIdFor(u) == 100 * uploads + u

(* ------------------------- the environment's answers ------------------- *)

(* sumoclient.post: a response (no exception), or one of the exceptions    *)
(* the except clauses of upload_to_sumo tell apart: "TransportError" is    *)
(* httpx.TimeoutException or httpx.ConnectError (one except clause).       *)
MetaAnswers ==
    [kind : {"response"}, status_code : {200, 201, 202}, text : {ShortText}]
    \cup [kind : {"TransportError", "Exception"},
          status_code : {None}, text : {ShortText}]
    \cup {[kind |-> "HTTPStatusError", status_code |-> 400, text |-> ShortText],
          [kind |-> "HTTPStatusError", status_code |-> 404, text |-> LongText]}

(* BlobClient.upload_blob through _upload_byte_string.                     *)
BlobAnswers ==
    [kind : {"uploaded", "TransportError", "Exception"},
     status_code : {None}]
    \cup [kind : {"HTTPStatusError"}, status_code : {403}]

(* subprocess.run of SEGYImport, and the code before it that builds the    *)
(* command outside any try (vertical_domain lookup, executable lookup).    *)
SegyAnswers == {"returncode_0", "returncode_nonzero", "run_raises", "cmdstr_raises"}

(* sumoclient.delete: the object is deleted, or the call raises; no        *)
(* exception of the call is caught, so one exception stands for all.       *)
DeleteAnswers == {"deleted", "TransportError"}

(* os.remove of a file that exists: it is removed, or the call raises.     *)
RemoveAnswers == {"removed", "OSError"}

(* ------------------------------ helpers -------------------------------- *)

Lower(mode) == IF mode = "moVE" THEN "move" ELSE mode

(* Variant: the test of the transfer mode is inverted.                     *)
IsMove_Inverted(mode) == Lower(mode) # "move"

(* sumo_mode.lower() == "move"                                             *)
IsMove(mode) == Lower(mode) = "move"

Truncate(n) == IF n < MaxText THEN n ELSE MaxText

IsSeismic(m) == m.format \in SeismicFormats

(* Variant: the format is sent as it is on disk.                           *)
NormalizeFormat_Identity(m) == m

NormalizeFormat(m) == IF IsSeismic(m) THEN [m EXCEPT !.format = "openvds"] ELSE m

(* Variant: the guard tests `is None` and lets an empty parent id pass.     *)
MissingParent_NoneOnly(parent) == parent = NoParent

(* `not sumo_parent_id`: None or empty.                                    *)
MissingParent(parent) == parent \in {NoParent, ""}

(* Variant: every 2xx status of the metadata POST continues.               *)
MetadataAccepted_Any2xx(code) == code \in 200..299

MetadataAccepted(code) == code \in {200, 201}

(* Variant: every status of the blob phase counts as a success.            *)
BlobAccepted_AnyCode(code) == code # None

(* Variant: the synthetic status 418 is not taken as a failure.            *)
BlobAccepted_Teapot(code) == code \in {200, 201, 418}

BlobAccepted(code) == code \in {200, 201}

EmptyResult ==
    [file |-> None, status |-> NoStatus,
     metadata_upload_response_status_code |-> None,
     metadata_upload_response_text |-> None,
     blob_upload_response_status_code |-> None]

NoAnswer == [kind |-> "none", status_code |-> None, text |-> None]

NoOutcome == [meta |-> NoAnswer, blob |-> "none", delete |-> "none", remove |-> "none"]

(* Variant: the HTTPStatusError clause reports like the generic clause.    *)
MetadataUpdate_StatusErrorFailed(r, a) ==
    IF a.kind = "response"
      THEN [r EXCEPT !.metadata_upload_response_status_code = a.status_code,
                     !.metadata_upload_response_text = a.text]
      ELSE [r EXCEPT !.status = "failed",
                     !.metadata_upload_response_status_code = 500,
                     !.metadata_upload_response_text = a.text]

(* result.update(...) of the try block and of each except clause of the    *)
(* metadata phase.                                                         *)
MetadataUpdate(r, a) ==
    CASE a.kind = "response" ->
            [r EXCEPT !.metadata_upload_response_status_code = a.status_code,
                      !.metadata_upload_response_text = a.text]
      [] a.kind = "TransportError" ->
            [r EXCEPT !.status = "failed",
                      !.metadata_upload_response_status_code = 500,
                      !.metadata_upload_response_text = a.text]
      [] a.kind = "HTTPStatusError" ->
            [r EXCEPT !.status = "rejected",
                      !.metadata_upload_response_status_code = a.status_code,
                      !.metadata_upload_response_text = Truncate(a.text)]
      [] OTHER ->
            [r EXCEPT !.status = "failed",
                      !.metadata_upload_response_status_code = 500,
                      !.metadata_upload_response_text = a.text]

(* upload_response["status_code"] of the non-seismic branch.               *)
BlobStatusCode(a) ==
    CASE a.kind = "uploaded" -> 201
      [] a.kind = "HTTPStatusError" -> a.status_code
      [] OTHER -> 500

(* Variant: the return code of SEGYImport is not looked at.                *)
SegyStatusCode_AlwaysOk(a) == 200

(* upload_response["status_code"] of the seismic branch off macOS.         *)
SegyStatusCode(a) == IF a = "returncode_0" THEN 200 ELSE 418

RemovalSteps == {"check_data", "remove_data", "check_yaml", "remove_yaml"}

InFlight == {u \in Units : pc[u] \in {"start", "blob", "reconcile"} \cup RemovalSteps}

Finished(u) == pc[u] \in {"returned", "raised"}

(* ------------------------ payload and digest --------------------------- *)

NoSummary == [total_files_count |-> -1, ok_files |-> -1,
              failed_files |-> -1, rejected_files |-> -1]
EmptyPath == 0     \* file.path = "" (the parameters unit)
NoPath == -1       \* the file object has no attribute `path`

(* The contents a data file may have.                                      *)
Bytes == {<< >>, <<"a">>, <<"b">>}

NoBytes == <<"none">>

(* hashlib.md5(bytes), base64-encoded: equal bytes give equal digests and, *)
(* collisions aside, different bytes give different digests.               *)
Md5(bytes) == <<"md5", bytes>>

(* metadata["_sumo"] as the constructor of a file object fills it in.      *)
SumoDigest(bytes) == [blob_size |-> Len(bytes), blob_md5 |-> Md5(bytes)]

NoDigest == [blob_size |-> -1, blob_md5 |-> Md5(NoBytes)]

NothingSent == [digest |-> NoDigest, bytes |-> NoBytes]

(* Files whose content is of no interest: a short content per path.        *)
PlainBytes(p) == IF p % 2 = 1 THEN <<"a">> ELSE <<"b">>

PlainDisk(paths) == [p \in paths |-> [bytes |-> PlainBytes(p), realization |-> TRUE]]

(* The store holds a parameters record: nothing is injected.               *)
NoInjection == [record |-> "held", config |-> TRUE, parameters |-> TRUE]

(* FileOnDisk.__init__ for every unit of the batch: the bytes are read     *)
(* once, blob_size and blob_md5 are computed from them.                    *)
FilesConstructed ==
    /\ byte_string = [u \in DOMAIN metadata |-> disk_file[path[u]].bytes]
    /\ blob_digest = [u \in DOMAIN metadata |-> SumoDigest(disk_file[path[u]].bytes)]
    /\ realization = [u \in DOMAIN metadata |-> disk_file[path[u]].realization]
    /\ sent_payload = [u \in DOMAIN metadata |-> NothingSent]

(* ------------------------------- Init ---------------------------------- *)

(* upload_statistics before the statistics step of upload().              *)
NoStats == [state |-> "unset"]

(* No statistics are looked at.                                            *)
NoStatsRun ==
    /\ timings = << >>
    /\ upload_statistics = NoStats

(* upload_files is called directly, without a case object.                 *)
NoCase ==
    /\ case_pc = "no_case"
    /\ case_metadata = "valid"
    /\ case_mode = "copy"
    /\ case_parent_id = NoParent
    /\ added = FALSE
    /\ files = << >>
    /\ skipped = 0
    /\ warnings = {}
    /\ case_return = "none"
    /\ uploads = 1
    /\ calls_allowed = 1

Batches == UNION {[1..n -> [format : Formats]] : n \in 1..MaxFiles}

Init ==
    /\ platform \in {"linux", "darwin"}
    /\ threads \in 1..MaxThreads
    /\ sumo_mode \in {"copy", "moVE"}
    /\ sumo_parent_id \in {NoParent, "", CaseUuid}
    /\ metadata \in Batches
    /\ sumo_object_id = [u \in DOMAIN metadata |-> None]
    /\ file_parent_id = [u \in DOMAIN metadata |-> NoParent]
    /\ path = [u \in DOMAIN metadata |-> u]
    /\ candidates = << >>
    /\ on_disk = [p \in DOMAIN metadata |-> [data |-> TRUE, yaml |-> TRUE]]
    /\ pc = [u \in DOMAIN metadata |-> "pending"]
    /\ result = [u \in DOMAIN metadata |-> EmptyResult]
    /\ upload_response = [u \in DOMAIN metadata |-> None]
    /\ calls = [u \in DOMAIN metadata |-> << >>]
    /\ sent_format = [u \in DOMAIN metadata |-> "none"]
    /\ outcome = [u \in DOMAIN metadata |-> NoOutcome]
    /\ objects = {}
    /\ blobs = {}
    /\ queue = << >>
    /\ phase = "idle"
    /\ idx = 1
    /\ ok_uploads = << >>
    /\ failed_uploads = << >>
    /\ rejected_uploads = << >>
    /\ raised = "none"
    /\ NoCase
    /\ NoStatsRun
    /\ disk_file = PlainDisk(DOMAIN on_disk)
    /\ parameters_env = NoInjection
    /\ FilesConstructed
    /\ summary = NoSummary

inputs == << platform, threads, sumo_mode, sumo_parent_id, path >>
case_vars == << case_pc, case_metadata, case_mode, case_parent_id, candidates,
                added, files, skipped, warnings, case_return, uploads,
                calls_allowed, summary >>
stats_vars == << timings, upload_statistics >>
disk_vars == << disk_file, parameters_env >>
unit_vars == << byte_string, blob_digest, realization >>
buckets == << idx, ok_uploads, failed_uploads, rejected_uploads, raised >>
store == << objects, blobs >>

(* --------------------- _upload_files: dispatch ------------------------- *)

(* data.format of the metadata ExportData generates for the parameters.    *)
ParameterFormat == "json"

(* json.dumps(parameters).encode("utf-8")                                  *)
ParameterBytes == <<"p">>

(* create_parameter_file: None ("none") when the store holds a parameters  *)
(* record or the configuration file is absent, else a FileOnJob            *)
(* ("paramfile").  The search call is in no try.  read_parameters_txt is   *)
(* in no try either, and it is fmu.dataio's: given a path with no file it  *)
(* raises or returns.                                                      *)
CreateParameterFile(env) ==
    IF env.record = "unreachable" THEN {"search_raises"}
    ELSE IF env.record = "held" THEN {"none"}
    ELSE IF ~ env.config THEN {"none"}
    ELSE IF ~ env.parameters THEN {"read_raises", "paramfile"}
    ELSE {"paramfile"}

(* Variant: a batch without a realization is dispatched as it is.          *)
BaseFileLookup_Optional(units, env) ==
    IF \E u \in units : realization[u]
      THEN CreateParameterFile(env) ELSE {"none"}

(* The search for base_file and the use of it: base_file stays None when   *)
(* no file has fmu.realization, and base_file.metadata raises.             *)
BaseFileLookup(units, env) ==
    IF \E u \in units : realization[u]
      THEN CreateParameterFile(env) ELSE {"AttributeError"}

(* Variant: upload() hands its own list of files to upload_files.          *)
FilesAfterInjection_Shared(fs, a) ==
    IF a = "paramfile" /\ fs # << >> THEN Append(fs, EmptyPath) ELSE fs

(* files_to_upload is a copy of self.files, so files.append(paramfile)     *)
(* leaves the list of the case as it is.                                   *)
FilesAfterInjection(fs, a) == fs

(* _upload_files up to executor.map: the base_file lookup, the parameters  *)
(* unit appended to the batch if one was created, and one task per file of *)
(* the batch, in batch order.                                              *)
Dispatch ==
    /\ phase = "idle"
    /\ \E a \in BaseFileLookup(Units, parameters_env) :
        /\ files' = FilesAfterInjection(files, a)
        /\ IF a \notin {"none", "paramfile"}
          THEN /\ phase' = "raised"
               /\ raised' = a
               /\ UNCHANGED << path, metadata, sumo_object_id, file_parent_id,
                               pc, result, upload_response, calls, sent_format,
                               sent_payload, outcome, queue, unit_vars, idx,
                               ok_uploads, failed_uploads, rejected_uploads >>
          ELSE LET Add(f, x) == IF a = "paramfile" THEN Append(f, x) ELSE f
                   n == IF a = "paramfile"
                          THEN Cardinality(Units) + 1 ELSE Cardinality(Units)
               IN  /\ phase' = "running"
                   /\ queue' = [i \in 1..n |-> i]
                   /\ pc' = [u \in 1..n |-> "queued"]
                   /\ path' = Add(path, EmptyPath)
                   /\ metadata' = Add(metadata, [format |-> ParameterFormat])
                   /\ byte_string' = Add(byte_string, ParameterBytes)
                   /\ blob_digest' = Add(blob_digest, SumoDigest(ParameterBytes))
                   /\ realization' = Add(realization, TRUE)
                   /\ sumo_object_id' = Add(sumo_object_id, None)
                   /\ file_parent_id' = Add(file_parent_id, NoParent)
                   /\ result' = Add(result, EmptyResult)
                   /\ upload_response' = Add(upload_response, None)
                   /\ calls' = Add(calls, << >>)
                   /\ sent_format' = Add(sent_format, "none")
                   /\ sent_payload' = Add(sent_payload, NothingSent)
                   /\ outcome' = Add(outcome, NoOutcome)
                   /\ UNCHANGED buckets
    /\ UNCHANGED << case_pc, case_metadata, case_mode, case_parent_id,
                    candidates, added, skipped, warnings, case_return,
                    uploads, calls_allowed, summary, stats_vars, disk_vars,
                    platform, threads, sumo_mode, sumo_parent_id, on_disk,
                    store >>

(* Variant: the pool starts a task whenever one is queued.                 *)
PoolHasIdleWorker_Unbounded == TRUE

(* An idle worker of the pool takes the next task; the pool has `threads`  *)
(* workers, and a worker runs one _upload_file to its end.                 *)
PoolHasIdleWorker == Cardinality(InFlight) < threads

(* Variant: every file object has the attribute `path`.                    *)
HasPath_Always(p) == TRUE

(* result = {"blob_file_path": self.path, ...}: the first statement of     *)
(* upload_to_sumo raises AttributeError for an object without `path`.      *)
HasPath(p) == p # NoPath

Take(u) ==
    /\ phase = "running"
    /\ queue # << >>
    /\ u = Head(queue)
    /\ PoolHasIdleWorker
    /\ queue' = Tail(queue)
    /\ pc' = [pc EXCEPT ![u] = IF HasPath(path[u]) THEN "start" ELSE "raised"]
    /\ UNCHANGED << case_vars, stats_vars, disk_vars, unit_vars, inputs, metadata, sumo_object_id, file_parent_id, on_disk,
                    result, upload_response, calls, sent_format, sent_payload, outcome,
                    store, phase, buckets >>

(* ----------------------- SumoFile.upload_to_sumo ----------------------- *)

(* _upload_file: result["file"] = file, after upload_to_sumo returned.     *)
Returned(r, u) == [r EXCEPT !.file = u]

(* Guard clause: no parent id, return "rejected" without any store call.   *)
GuardReject(u) ==
    /\ pc[u] = "start"
    /\ MissingParent(sumo_parent_id)
    /\ result' = [result EXCEPT ![u] =
            Returned([EmptyResult EXCEPT
                        !.status = "rejected",
                        !.metadata_upload_response_status_code = 500,
                        !.metadata_upload_response_text = GuardText], u)]
    /\ pc' = [pc EXCEPT ![u] = "returned"]
    /\ UNCHANGED << case_vars, stats_vars, disk_vars, unit_vars, inputs, metadata, sumo_object_id, file_parent_id, on_disk,
                    upload_response, calls, sent_format, sent_payload, outcome, store,
                    queue, phase, buckets >>

(* Metadata phase: rewrite of data.format, the POST, the classification of *)
(* its outcome, and the early return when the status code is not 200/201.  *)
UploadMetadata(u) ==
    /\ pc[u] = "start"
    /\ ~ MissingParent(sumo_parent_id)
    /\ \E a \in MetaAnswers :
        LET m == NormalizeFormat(metadata[u])
            r == MetadataUpdate(EmptyResult, a)
            code == r.metadata_upload_response_status_code
            created == a.kind = "response" /\ a.status_code \in {200, 201}
        IN  /\ metadata' = [metadata EXCEPT ![u] = m]
            /\ sent_format' = [sent_format EXCEPT ![u] = m.format]
            /\ sent_payload' = [sent_payload EXCEPT ![u].digest = blob_digest[u]]
            /\ calls' = [calls EXCEPT ![u] = Append(@, [call |-> "post", id |-> None])]
            /\ outcome' = [outcome EXCEPT ![u].meta = a]
            /\ objects' = IF created THEN objects \cup {ObjectIdFor(u)} ELSE objects
            /\ IF MetadataAccepted(code)
                 THEN /\ result' = [result EXCEPT ![u] = r]
                      /\ file_parent_id' = [file_parent_id EXCEPT ![u] = sumo_parent_id]
                      /\ sumo_object_id' = [sumo_object_id EXCEPT ![u] =
                              IF created THEN ObjectIdFor(u) ELSE None]
                      /\ pc' = [pc EXCEPT ![u] = "blob"]
                 ELSE /\ result' = [result EXCEPT ![u] = Returned(r, u)]
                      /\ pc' = [pc EXCEPT ![u] = "returned"]
                      /\ UNCHANGED << file_parent_id, sumo_object_id >>
    /\ UNCHANGED << case_vars, stats_vars, disk_vars, unit_vars, inputs, on_disk, upload_response, blobs, queue, phase, buckets >>

(* Variant: the buffer was used up when the digest was computed.           *)
BlobBytes_Consumed(u) == << >>

(* upload_blob(self.byte_string, ...)                                      *)
BlobBytes(u) == byte_string[u]

(* Blob phase of a unit that is not seismic: _upload_byte_string.          *)
UploadBlob(u) ==
    /\ pc[u] = "blob"
    /\ ~ IsSeismic(metadata[u])
    /\ \E a \in BlobAnswers :
        LET code == BlobStatusCode(a)
        IN  /\ calls' = [calls EXCEPT ![u] = Append(@, [call |-> "blob", id |-> sumo_object_id[u]])]
            /\ outcome' = [outcome EXCEPT ![u].blob = a.kind]
            /\ sent_payload' = [sent_payload EXCEPT ![u].bytes = BlobBytes(u)]
            /\ blobs' = IF a.kind = "uploaded"
                          THEN blobs \cup {sumo_object_id[u]} ELSE blobs
            /\ upload_response' = [upload_response EXCEPT ![u] = code]
            /\ result' = [result EXCEPT ![u].blob_upload_response_status_code = code]
    /\ pc' = [pc EXCEPT ![u] = "reconcile"]
    /\ UNCHANGED << case_vars, stats_vars, disk_vars, unit_vars, inputs, metadata, sumo_object_id, file_parent_id, on_disk,
                    sent_format, objects, queue, phase, buckets >>

(* Blob phase of a seismic unit on macOS: status 418, no subprocess.       *)
SegyOnDarwin(u) ==
    /\ pc[u] = "blob"
    /\ IsSeismic(metadata[u])
    /\ platform = "darwin"
    /\ outcome' = [outcome EXCEPT ![u].blob = "darwin"]
    /\ upload_response' = [upload_response EXCEPT ![u] = 418]
    /\ result' = [result EXCEPT ![u].blob_upload_response_status_code = 418]
    /\ pc' = [pc EXCEPT ![u] = "reconcile"]
    /\ UNCHANGED << case_vars, stats_vars, disk_vars, unit_vars, inputs, metadata, sumo_object_id, file_parent_id, on_disk,
                    calls, sent_format, sent_payload, store, queue, phase, buckets >>

(* Blob phase of a seismic unit elsewhere: the SEGYImport subprocess.  The *)
(* command is built outside the try: an exception there leaves             *)
(* upload_to_sumo.                                                         *)
SegyImport(u) ==
    /\ pc[u] = "blob"
    /\ IsSeismic(metadata[u])
    /\ platform # "darwin"
    /\ \E a \in SegyAnswers :
        /\ outcome' = [outcome EXCEPT ![u].blob = a]
        /\ IF a = "cmdstr_raises"
             THEN /\ pc' = [pc EXCEPT ![u] = "raised"]
                  /\ UNCHANGED << calls, blobs, upload_response, result >>
             ELSE /\ calls' = [calls EXCEPT ![u] = Append(@, [call |-> "segyimport", id |-> sumo_object_id[u]])]
                  /\ blobs' = IF a = "returncode_0"
                                THEN blobs \cup {sumo_object_id[u]} ELSE blobs
                  /\ upload_response' = [upload_response EXCEPT ![u] = SegyStatusCode(a)]
                  /\ result' = [result EXCEPT
                                  ![u].blob_upload_response_status_code = SegyStatusCode(a)]
                  /\ pc' = [pc EXCEPT ![u] = "reconcile"]
    /\ UNCHANGED << case_vars, stats_vars, disk_vars, unit_vars, inputs, metadata, sumo_object_id, file_parent_id, on_disk,
                    sent_format, sent_payload, objects, queue, phase, buckets >>

(* Variant: the delete goes to the object the store created last.          *)
DeleteTarget_LastCreated(u) ==
    IF objects = {} THEN sumo_object_id[u]
    ELSE CHOOSE id \in objects : \A o \in objects : o <= id

(* _delete_metadata(self.sumo_object_id): the id the unit recorded from    *)
(* its own metadata response.                                              *)
DeleteTarget(u) == sumo_object_id[u]

(* Reconciliation, blob phase not 200/201: status "failed" and the         *)
(* compensating delete; an exception of the delete call is not caught.     *)
DeleteMetadata(u) ==
    /\ pc[u] = "reconcile"
    /\ ~ BlobAccepted(upload_response[u])
    /\ \E a \in DeleteAnswers :
        /\ calls' = [calls EXCEPT ![u] = Append(@, [call |-> "delete", id |-> DeleteTarget(u)])]
        /\ outcome' = [outcome EXCEPT ![u].delete = a]
        /\ IF a = "deleted"
             THEN /\ objects' = objects \ {DeleteTarget(u)}
                  /\ result' = [result EXCEPT ![u] =
                                  Returned([@ EXCEPT !.status = "failed"], u)]
                  /\ pc' = [pc EXCEPT ![u] = "returned"]
             ELSE /\ objects' = objects
                  /\ result' = [result EXCEPT ![u].status = "failed"]
                  /\ pc' = [pc EXCEPT ![u] = "raised"]
    /\ upload_response' = [upload_response EXCEPT ![u] = None]
    /\ UNCHANGED << case_vars, stats_vars, disk_vars, unit_vars, inputs, metadata, sumo_object_id, file_parent_id, on_disk,
                    sent_format, sent_payload, blobs, queue, phase, buckets >>

(* Reconciliation, blob phase 200/201: status "ok"; in copy mode the       *)
(* result is returned, in move mode the local files are removed first.     *)
Succeed(u) ==
    /\ pc[u] = "reconcile"
    /\ BlobAccepted(upload_response[u])
    /\ IF IsMove(sumo_mode)
         THEN /\ result' = [result EXCEPT ![u].status = "ok"]
              /\ pc' = [pc EXCEPT ![u] = "check_data"]
         ELSE /\ result' = [result EXCEPT ![u] = Returned([@ EXCEPT !.status = "ok"], u)]
              /\ pc' = [pc EXCEPT ![u] = "returned"]
    /\ upload_response' = [upload_response EXCEPT ![u] = None]
    /\ UNCHANGED << case_vars, stats_vars, disk_vars, unit_vars, inputs, metadata, sumo_object_id, file_parent_id, on_disk,
                    calls, sent_format, sent_payload, outcome, store, queue, phase, buckets >>

(* Variant: an exception of the removal leaves upload_to_sumo.             *)
RemovalCaught_Raises(u) ==
    /\ outcome' = [outcome EXCEPT ![u].remove = "error"]
    /\ result' = result
    /\ pc' = [pc EXCEPT ![u] = "raised"]

(* An exception of the removal is caught and becomes a warning; the result *)
(* (status "ok") is returned.                                              *)
RemovalCaught(u) ==
    /\ outcome' = [outcome EXCEPT ![u].remove = "error"]
    /\ result' = [result EXCEPT ![u] = Returned(@, u)]
    /\ pc' = [pc EXCEPT ![u] = "returned"]

(* os.path.exists of the data file (kind "data") or of the sidecar (kind   *)
(* "yaml") at path p; there is no file at the empty path.                  *)
Exists(p, kind) == p \in DOMAIN on_disk /\ on_disk[p][kind]

(* os.path.exists(file_path)                                               *)
CheckData(u) ==
    /\ pc[u] = "check_data"
    /\ pc' = [pc EXCEPT ![u] =
                IF Exists(path[u], "data") THEN "remove_data" ELSE "check_yaml"]
    /\ UNCHANGED << case_vars, stats_vars, disk_vars, unit_vars, inputs, metadata, sumo_object_id, file_parent_id, on_disk,
                    result, upload_response, calls, sent_format, sent_payload, outcome,
                    store, queue, phase, buckets >>

(* os.remove(file_path): a file that is gone by now raises.                *)
RemoveData(u) ==
    /\ pc[u] = "remove_data"
    /\ calls' = [calls EXCEPT ![u] = Append(@, [call |-> "remove_data", id |-> path[u]])]
    /\ \E a \in RemoveAnswers :
        IF on_disk[path[u]].data /\ a = "removed"
          THEN /\ on_disk' = [on_disk EXCEPT ![path[u]].data = FALSE]
               /\ pc' = [pc EXCEPT ![u] = "check_yaml"]
               /\ UNCHANGED << outcome, result >>
          ELSE /\ RemovalCaught(u)
               /\ UNCHANGED on_disk
    /\ UNCHANGED << case_vars, stats_vars, disk_vars, unit_vars, inputs, metadata, sumo_object_id, file_parent_id,
                    upload_response, sent_format, sent_payload, store, queue, phase, buckets >>

(* os.path.exists(metadatafile_path)                                       *)
CheckYaml(u) ==
    /\ pc[u] = "check_yaml"
    /\ IF Exists(path[u], "yaml")
         THEN /\ pc' = [pc EXCEPT ![u] = "remove_yaml"]
              /\ UNCHANGED << outcome, result >>
         ELSE /\ outcome' = [outcome EXCEPT ![u].remove = "done"]
              /\ result' = [result EXCEPT ![u] = Returned(@, u)]
              /\ pc' = [pc EXCEPT ![u] = "returned"]
    /\ UNCHANGED << case_vars, stats_vars, disk_vars, unit_vars, inputs, metadata, sumo_object_id, file_parent_id, on_disk,
                    upload_response, calls, sent_format, sent_payload, store, queue, phase,
                    buckets >>

(* os.remove(metadatafile_path), then the result is returned.              *)
RemoveYaml(u) ==
    /\ pc[u] = "remove_yaml"
    /\ calls' = [calls EXCEPT ![u] = Append(@, [call |-> "remove_yaml", id |-> path[u]])]
    /\ \E a \in RemoveAnswers :
        IF on_disk[path[u]].yaml /\ a = "removed"
          THEN /\ on_disk' = [on_disk EXCEPT ![path[u]].yaml = FALSE]
               /\ outcome' = [outcome EXCEPT ![u].remove = "done"]
               /\ result' = [result EXCEPT ![u] = Returned(@, u)]
               /\ pc' = [pc EXCEPT ![u] = "returned"]
          ELSE /\ RemovalCaught(u)
               /\ UNCHANGED on_disk
    /\ UNCHANGED << case_vars, stats_vars, disk_vars, unit_vars, inputs, metadata, sumo_object_id, file_parent_id,
                    upload_response, sent_format, sent_payload, store, queue, phase, buckets >>

(* ----------------------- upload_files: classification ------------------ *)

(* Variant: shutdown(wait=False), the block is left once every task is    *)
(* taken.                                                                  *)
AllTasksDone_NoWait == queue = << >>

(* Variant: the block is left only when every task has returned a result. *)
AllTasksDone_OnlyReturned == queue = << >> /\ \A u \in Units : pc[u] = "returned"

(* Leaving the `with ThreadPoolExecutor` block waits for every task.       *)
AllTasksDone == queue = << >> /\ \A u \in Units : Finished(u)

Barrier ==
    /\ phase = "running"
    /\ AllTasksDone
    /\ phase' = "classify"
    /\ UNCHANGED << case_vars, stats_vars, disk_vars, unit_vars, inputs, metadata, sumo_object_id, file_parent_id, on_disk,
                    pc, result, upload_response, calls, sent_format, sent_payload, outcome,
                    store, queue, buckets >>

(* Variant: every result with a status is counted as ok.                   *)
BucketOf_AllOk(status) == "ok"

(* Variant: a rejected result is counted as failed.                        *)
BucketOf_RejectedAsFailed(status) ==
    IF status = "ok" THEN "ok" ELSE "failed"

(* The bucket of a result that carries a status: "ok", "rejected", and     *)
(* "failed" for every other value.                                         *)
BucketOf(status) ==
    IF status = "ok" THEN "ok"
    ELSE IF status = "rejected" THEN "rejected"
    ELSE "failed"

(* Variant: the results are taken from the end of the batch.               *)
NextResult_Reversed(i) == result[Cardinality(Units) + 1 - i]

(* The i-th result of executor.map is the result of the i-th file.         *)
NextResult(i) == result[i]

(* One turn of `for r in results`: the results come in batch order; the    *)
(* iterator re-raises the exception of a task, a result without status     *)
(* raises ValueError.                                                      *)
Classify ==
    /\ phase = "classify"
    /\ idx <= Cardinality(Units)
    /\ LET r == NextResult(idx)
       IN  IF pc[idx] = "raised"
             THEN /\ raised' = "task_exception"
                  /\ phase' = "raised"
                  /\ UNCHANGED << idx, ok_uploads, failed_uploads, rejected_uploads >>
           ELSE IF r.status = NoStatus
             THEN /\ raised' = "ValueError"
                  /\ phase' = "raised"
                  /\ UNCHANGED << idx, ok_uploads, failed_uploads, rejected_uploads >>
           ELSE /\ idx' = idx + 1
                /\ ok_uploads' = IF BucketOf(r.status) = "ok"
                                   THEN Append(ok_uploads, r) ELSE ok_uploads
                /\ rejected_uploads' = IF BucketOf(r.status) = "rejected"
                                   THEN Append(rejected_uploads, r) ELSE rejected_uploads
                /\ failed_uploads' = IF BucketOf(r.status) = "failed"
                                   THEN Append(failed_uploads, r) ELSE failed_uploads
                /\ UNCHANGED << phase, raised >>
    /\ UNCHANGED << case_vars, stats_vars, disk_vars, unit_vars, inputs, metadata, sumo_object_id, file_parent_id, on_disk,
                    pc, result, upload_response, calls, sent_format, sent_payload, outcome,
                    store, queue >>

(* upload_files returns the three buckets.                                 *)
ReturnBuckets ==
    /\ phase = "classify"
    /\ idx > Cardinality(Units)
    /\ phase' = "done"
    /\ UNCHANGED << case_vars, stats_vars, disk_vars, unit_vars, inputs, metadata, sumo_object_id, file_parent_id, on_disk,
                    pc, result, upload_response, calls, sent_format, sent_payload, outcome,
                    store, queue, buckets >>

Next ==
    \/ Dispatch
    \/ \E u \in Units : Take(u)
    \/ \E u \in Units : GuardReject(u)
    \/ \E u \in Units : UploadMetadata(u)
    \/ \E u \in Units : UploadBlob(u)
    \/ \E u \in Units : SegyOnDarwin(u)
    \/ \E u \in Units : SegyImport(u)
    \/ \E u \in Units : DeleteMetadata(u)
    \/ \E u \in Units : Succeed(u)
    \/ \E u \in Units : CheckData(u)
    \/ \E u \in Units : RemoveData(u)
    \/ \E u \in Units : CheckYaml(u)
    \/ \E u \in Units : RemoveYaml(u)
    \/ Barrier
    \/ Classify
    \/ ReturnBuckets

Spec == Init /\ [][Next]_vars

(* A batch in move mode whose units were all built from one disk path (the *)
(* caller passed the same path more than once), hence from one sidecar.    *)
DupFormats == {"segy", "irap_binary"}

DupInit ==
    /\ platform \in {"linux", "darwin"}
    /\ threads \in 1..MaxThreads
    /\ sumo_mode = "moVE"
    /\ sumo_parent_id \in {NoParent, CaseUuid}
    /\ \E n \in 1..MaxFiles, f \in DupFormats :
          metadata = [u \in 1..n |-> [format |-> f]]
    /\ sumo_object_id = [u \in DOMAIN metadata |-> None]
    /\ file_parent_id = [u \in DOMAIN metadata |-> NoParent]
    /\ path = [u \in DOMAIN metadata |-> 1]
    /\ candidates = << >>
    /\ on_disk = [p \in {1} |-> [data |-> TRUE, yaml |-> TRUE]]
    /\ pc = [u \in DOMAIN metadata |-> "pending"]
    /\ result = [u \in DOMAIN metadata |-> EmptyResult]
    /\ upload_response = [u \in DOMAIN metadata |-> None]
    /\ calls = [u \in DOMAIN metadata |-> << >>]
    /\ sent_format = [u \in DOMAIN metadata |-> "none"]
    /\ outcome = [u \in DOMAIN metadata |-> NoOutcome]
    /\ objects = {}
    /\ blobs = {}
    /\ queue = << >>
    /\ phase = "idle"
    /\ idx = 1
    /\ ok_uploads = << >>
    /\ failed_uploads = << >>
    /\ rejected_uploads = << >>
    /\ raised = "none"
    /\ NoCase
    /\ NoStatsRun
    /\ disk_file = PlainDisk(DOMAIN on_disk)
    /\ parameters_env = NoInjection
    /\ FilesConstructed
    /\ summary = NoSummary

DupSpec == DupInit /\ [][Next]_vars

(* ------------------------- the case object ----------------------------- *)

(* What the case metadata file holds: a document with fmu.case.uuid, a     *)
(* document without it, or nothing loadable (file absent or invalid yaml). *)
CaseMetadataKinds == {"valid", "no_uuid", "absent"}

(* sumo_mode of upload_files when the caller passes none.                  *)
DefaultMode == "copy"

CaseFormats == {"segy", "irap_binary"}

(* A file the search string matches: with a loadable sidecar and its       *)
(* data.format, or without a sidecar.                                      *)
Candidate == [valid : {TRUE}, format : CaseFormats]
                \cup {[valid |-> FALSE, format |-> "irap_binary"]}

CandidateLists == UNION {[1..n -> Candidate] : n \in 0..MaxFiles}

CaseInit ==
    /\ platform = "linux"
    /\ case_metadata \in CaseMetadataKinds
    /\ case_mode \in {"copy", "moVE"}
    /\ candidates \in CandidateLists
    /\ case_pc = "new"
    /\ case_parent_id = NoParent
    /\ added = FALSE
    /\ files = << >>
    /\ skipped = 0
    /\ warnings = {}
    /\ case_return = "none"
    /\ uploads = 0
    /\ calls_allowed = 1
    /\ threads = 1
    /\ sumo_mode = DefaultMode
    /\ sumo_parent_id = NoParent
    /\ metadata = << >>
    /\ sumo_object_id = << >>
    /\ file_parent_id = << >>
    /\ path = << >>
    /\ on_disk = [p \in DOMAIN candidates |->
                    [data |-> TRUE, yaml |-> candidates[p].valid]]
    /\ pc = << >>
    /\ result = << >>
    /\ upload_response = << >>
    /\ calls = << >>
    /\ sent_format = << >>
    /\ outcome = << >>
    /\ objects = {}
    /\ blobs = {}
    /\ queue = << >>
    /\ phase = "no_batch"
    /\ idx = 1
    /\ ok_uploads = << >>
    /\ failed_uploads = << >>
    /\ rejected_uploads = << >>
    /\ raised = "none"
    /\ NoStatsRun
    /\ disk_file = PlainDisk(DOMAIN on_disk)
    /\ parameters_env = NoInjection
    /\ FilesConstructed
    /\ summary = NoSummary

batch == << metadata, sumo_object_id, file_parent_id, pc, result,
            upload_response, calls, sent_format, outcome, queue,
            byte_string, blob_digest, realization, sent_payload >>

(* case_metadata.get("fmu").get("case").get("uuid") yields a uuid.         *)
HasCaseUuid(kind) == kind = "valid"

(* CaseOnDisk(case_metadata_path, sumo_connection, sumo_mode=...):         *)
(* _load_case_metadata warns and yields {} for an absent or invalid file;  *)
(* _get_fmu_case_uuid raises unless the uuid is there.                     *)
Construct ==
    /\ case_pc = "new"
    /\ warnings' = IF case_metadata = "absent"
                     THEN warnings \cup {"invalid_metadata"} ELSE warnings
    /\ IF HasCaseUuid(case_metadata)
         THEN /\ case_pc' = "constructed"
              /\ case_parent_id' = CaseUuid
         ELSE /\ case_pc' = "construct_raised"
              /\ UNCHANGED case_parent_id
    /\ UNCHANGED << case_metadata, case_mode, candidates, added, files,
                    skipped, case_return, uploads,
                    calls_allowed, summary, inputs, batch, on_disk, store,
                    phase, buckets,
                    stats_vars, disk_vars >>

(* Variant: every candidate becomes a FileOnDisk.                          *)
FileOnDiskOk_Always(c) == TRUE

(* FileOnDisk(path=...) constructs: parse_yaml finds and loads the sidecar.*)
FileOnDiskOk(c) == c.valid

(* The loop of add_files from candidate i on.                              *)
RECURSIVE AddLoop(_, _, _)
AddLoop(cands, i, acc) ==
    IF i > Len(cands) THEN acc
    ELSE AddLoop(cands, i + 1,
                 IF FileOnDiskOk(cands[i])
                   THEN [acc EXCEPT !.files = Append(@, i)]
                   ELSE [acc EXCEPT !.skipped = @ + 1])

(* case.add_files(search_string)                                           *)
AddFiles ==
    /\ case_pc = "constructed"
    /\ ~ added
    /\ added' = TRUE
    /\ warnings' = IF candidates = << >>
                     THEN warnings \cup {"no_files_found"} ELSE warnings
    /\ LET r == AddLoop(candidates, 1, [files |-> files, skipped |-> skipped])
       IN  /\ files' = r.files
           /\ skipped' = r.skipped
    /\ UNCHANGED << case_pc, case_metadata, case_mode, case_parent_id,
                    candidates, case_return, uploads,
                    calls_allowed, summary, inputs, batch, on_disk, store,
                    phase, buckets,
                    stats_vars, disk_vars >>

(* The POST of the case metadata: the response carries the object id, or   *)
(* carries none, or the call raises.                                       *)
RegisterAnswers == {"objectid", "no_objectid", "raises"}

(* _sumo_parent_id after register().                                       *)
RegisteredParent(a, parent) ==
    CASE a = "objectid" -> CaseUuid
      [] a = "no_objectid" -> NoParent
      [] OTHER -> parent

(* register() turns an exception into a warning.                           *)
RegisterWarnings(a, w) ==
    IF a = "raises" THEN w \cup {"registering_failed"} ELSE w

(* case.register()                                                         *)
RegisterCall(a) ==
    /\ case_pc = "constructed"
    /\ case_parent_id' = RegisteredParent(a, case_parent_id)
    /\ warnings' = RegisterWarnings(a, warnings)
    /\ UNCHANGED << case_pc, case_metadata, case_mode, candidates, added,
                    files, skipped, case_return, uploads,
                    calls_allowed, summary, inputs, batch, on_disk, store, phase,
                    buckets,
                    stats_vars, disk_vars >>

Register == \E a \in RegisterAnswers : RegisterCall(a)

(* Variant: the test for an unregistered case never holds.                 *)
Unregistered_Never(parent) == FALSE

(* self.sumo_parent_id is None                                             *)
Unregistered(parent) == parent = NoParent

(* case.upload(threads=t, register_case=...) up to the call of             *)
(* upload_files: an unregistered case is registered or the call warns and  *)
(* returns; an empty pending list raises; otherwise upload_files gets the  *)
(* pending files, the parent id and the thread count, and no sumo_mode.    *)
UploadCall(t, rc, a) ==
    /\ \/ case_pc = "constructed"
       \/ case_pc = "returned" /\ uploads < calls_allowed
    /\ uploads' = uploads + 1
    /\ summary' = NoSummary
    /\ LET unregistered == Unregistered(case_parent_id)
            parent == IF unregistered /\ rc
                        THEN RegisteredParent(a, case_parent_id) ELSE case_parent_id
            w == IF unregistered /\ rc
                   THEN RegisterWarnings(a, warnings) ELSE warnings
            n == Len(files)
            again == Len(metadata) >= n
            Kept(f, u, fresh) == IF again THEN f[u] ELSE fresh
        IN  IF unregistered /\ ~ rc
                   THEN /\ warnings' = warnings \cup {"not_registered"}
                        /\ case_pc' = "returned"
                        /\ case_return' = "None"
                        /\ UNCHANGED << case_parent_id, inputs, batch,
                                        phase, buckets >>
                 ELSE IF files = << >>
                   THEN /\ warnings' = w
                        /\ case_parent_id' = parent
                        /\ case_pc' = "upload_raised"
                        /\ UNCHANGED << case_return, inputs, batch, phase,
                                        buckets >>
                 ELSE /\ warnings' = w
                      /\ case_parent_id' = parent
                      /\ case_pc' = "uploading"
                      /\ case_return' = "none"
                      /\ threads' = t
                      /\ sumo_mode' = DefaultMode
                      /\ sumo_parent_id' = parent
                      /\ metadata' = [u \in 1..n |->
                              Kept(metadata, u, [format |-> candidates[files[u]].format])]
                      /\ path' = [u \in 1..n |-> files[u]]
                      /\ sumo_object_id' = [u \in 1..n |-> Kept(sumo_object_id, u, None)]
                      /\ file_parent_id' = [u \in 1..n |-> Kept(file_parent_id, u, NoParent)]
                      /\ pc' = [u \in 1..n |-> "pending"]
                      /\ result' = [u \in 1..n |-> EmptyResult]
                      /\ upload_response' = [u \in 1..n |-> None]
                      /\ calls' = [u \in 1..n |-> << >>]
                      /\ sent_format' = [u \in 1..n |-> "none"]
                      /\ sent_payload' = [u \in 1..n |-> NothingSent]
                      /\ byte_string' = [u \in 1..n |-> Kept(byte_string, u, disk_file[files[u]].bytes)]
                      /\ blob_digest' = [u \in 1..n |->
                              Kept(blob_digest, u, SumoDigest(disk_file[files[u]].bytes))]
                      /\ realization' = [u \in 1..n |-> disk_file[files[u]].realization]
                      /\ outcome' = [u \in 1..n |-> NoOutcome]
                      /\ phase' = "idle"
                      /\ idx' = 1
                      /\ ok_uploads' = << >>
                      /\ failed_uploads' = << >>
                      /\ rejected_uploads' = << >>
                      /\ raised' = "none"
                      /\ UNCHANGED << platform, queue >>
    /\ UNCHANGED << case_metadata, case_mode, candidates, added, files,
                    skipped, calls_allowed, on_disk, store,
                    stats_vars, disk_vars >>

CaseUpload ==
    \E t \in 1..MaxThreads, rc \in BOOLEAN, a \in RegisterAnswers :
        UploadCall(t, rc, a)

(* Variant: the total is the number of files handed to the workers.        *)
UploadSummary_Dispatched(fs, ok, failed, rejected) ==
    [total_files_count |-> Cardinality(Units), ok_files |-> Len(ok),
     failed_files |-> Len(failed), rejected_files |-> Len(rejected)]

(* The counts of the upload_summary record: the total is the length of the *)
(* case's list of files, the others the lengths of the result lists (each  *)
(* written out by str, the decimal numeral of the count).                  *)
UploadSummary(fs, ok, failed, rejected) ==
    [total_files_count |-> Len(fs), ok_files |-> Len(ok),
     failed_files |-> Len(failed), rejected_files |-> Len(rejected)]

(* case.upload after upload_files: an exception of upload_files leaves     *)
(* upload(); failed uploads give a warning; ok_uploads is returned.        *)
CaseReturn ==
    /\ case_pc = "uploading"
    /\ phase \in {"done", "raised"}
    /\ IF phase = "raised"
         THEN /\ case_pc' = "upload_raised"
              /\ UNCHANGED << warnings, case_return, summary >>
         ELSE /\ case_pc' = "returned"
              /\ summary' = UploadSummary(files, ok_uploads, failed_uploads,
                                          rejected_uploads)
              /\ warnings' = IF failed_uploads # << >>
                               THEN warnings \cup {"stopping"} ELSE warnings
              /\ case_return' = "ok_uploads"
    /\ UNCHANGED << case_metadata, case_mode, case_parent_id, candidates,
                    added, files, skipped, uploads,
                    calls_allowed, inputs, batch, on_disk, store, phase,
                    buckets,
                    stats_vars, disk_vars >>

CaseNext ==
    \/ Construct
    \/ AddFiles
    \/ Register
    \/ CaseUpload
    \/ CaseReturn
    \/ Next

(* A direct call of upload_files for one file in move mode.                *)
DirectInit ==
    /\ platform \in {"linux", "darwin"}
    /\ threads = 1
    /\ sumo_mode = "moVE"
    /\ sumo_parent_id = CaseUuid
    /\ metadata \in [1..1 -> [format : Formats]]
    /\ sumo_object_id = [u \in DOMAIN metadata |-> None]
    /\ file_parent_id = [u \in DOMAIN metadata |-> NoParent]
    /\ path = [u \in DOMAIN metadata |-> u]
    /\ candidates = [p \in DOMAIN metadata |->
                       [valid |-> TRUE, format |-> metadata[p].format]]
    /\ on_disk = [p \in DOMAIN metadata |-> [data |-> TRUE, yaml |-> TRUE]]
    /\ pc = [u \in DOMAIN metadata |-> "pending"]
    /\ result = [u \in DOMAIN metadata |-> EmptyResult]
    /\ upload_response = [u \in DOMAIN metadata |-> None]
    /\ calls = [u \in DOMAIN metadata |-> << >>]
    /\ sent_format = [u \in DOMAIN metadata |-> "none"]
    /\ outcome = [u \in DOMAIN metadata |-> NoOutcome]
    /\ objects = {}
    /\ blobs = {}
    /\ queue = << >>
    /\ phase = "idle"
    /\ idx = 1
    /\ ok_uploads = << >>
    /\ failed_uploads = << >>
    /\ rejected_uploads = << >>
    /\ raised = "none"
    /\ NoCase
    /\ NoStatsRun
    /\ disk_file \in [DOMAIN on_disk -> [bytes : Bytes, realization : {TRUE}]]
    /\ parameters_env = NoInjection
    /\ FilesConstructed
    /\ summary = NoSummary

(* A run of the uploader: through a case object, or by a direct call of    *)
(* upload_files, the only way a transfer mode reaches the per-file upload. *)
CaseSpec == (CaseInit \/ DirectInit) /\ [][CaseNext]_vars

(* ------------------------ repeated upload() calls ---------------------- *)

(* The caller calls upload() at most this many times on one case object.   *)
MaxUploads == 2

(* The number of files the search string matches in a repeated run.        *)
RepeatFiles == 1

(* A registered case whose caller calls upload() again after it returned.  *)
RepeatInit ==
    /\ platform \in {"linux", "darwin"}
    /\ case_metadata = "valid"
    /\ case_mode = "copy"
    /\ candidates \in [1..RepeatFiles -> [valid : {TRUE}, format : CaseFormats]]
    /\ case_pc = "new"
    /\ case_parent_id = NoParent
    /\ added = FALSE
    /\ files = << >>
    /\ skipped = 0
    /\ warnings = {}
    /\ case_return = "none"
    /\ uploads = 0
    /\ calls_allowed = MaxUploads
    /\ threads = 1
    /\ sumo_mode = DefaultMode
    /\ sumo_parent_id = NoParent
    /\ metadata = << >>
    /\ sumo_object_id = << >>
    /\ file_parent_id = << >>
    /\ path = << >>
    /\ on_disk = [p \in DOMAIN candidates |-> [data |-> TRUE, yaml |-> TRUE]]
    /\ pc = << >>
    /\ result = << >>
    /\ upload_response = << >>
    /\ calls = << >>
    /\ sent_format = << >>
    /\ outcome = << >>
    /\ objects = {}
    /\ blobs = {}
    /\ queue = << >>
    /\ phase = "no_batch"
    /\ idx = 1
    /\ ok_uploads = << >>
    /\ failed_uploads = << >>
    /\ rejected_uploads = << >>
    /\ raised = "none"
    /\ NoStatsRun
    /\ disk_file = PlainDisk(DOMAIN on_disk)
    /\ parameters_env = NoInjection
    /\ FilesConstructed
    /\ summary = NoSummary

(* A run in which upload() may be called again on the same case object.    *)
RepeatSpec == (RepeatInit \/ DirectInit) /\ [][CaseNext]_vars

(* ------------------------- upload statistics --------------------------- *)

(* Elapsed times are measured in whole ticks of the clock, at most this.   *)
MaxElapsed == 2

(* The two timings every ok result carries.                                *)
Timing ==
    [metadata_upload_time_elapsed : 0..MaxElapsed,
     blob_upload_time_elapsed : 0..MaxElapsed]

(* The ok_uploads lists the statistics step may see.                       *)
TimingLists == UNION {[1..n -> Timing] : n \in 0..MaxFiles}

RECURSIVE Sum(_)
Sum(values) ==
    IF values = << >> THEN 0 ELSE Head(values) + Sum(Tail(values))

(* statistics.mean: the exact quotient sum / len, kept as a fraction.      *)
Mean(values) == [num |-> Sum(values), den |-> Len(values)]

Max(values) ==
    CHOOSE v \in {values[i] : i \in DOMAIN values} :
        \A i \in DOMAIN values : values[i] <= v

Min(values) ==
    CHOOSE v \in {values[i] : i \in DOMAIN values} :
        \A i \in DOMAIN values : v <= values[i]

(* statistics.stdev: the square root of the sample variance                *)
(* sum((x - mean)^2) / (n - 1); the radicand is kept as the fraction       *)
(* sum((n*x - sum)^2) / (n*n*(n - 1)).                                     *)
Stdev(values) ==
    LET n == Len(values)
        dev == [i \in DOMAIN values |->
                   (n * values[i] - Sum(values)) * (n * values[i] - Sum(values))]
    IN [sqrt_num |-> Sum(dev), sqrt_den |-> n * n * (n - 1)]

(* The std of a single value.                                              *)
ZeroStd == [sqrt_num |-> 0, sqrt_den |-> 1]

NeedsStdev_Always(values) == TRUE

(* len(values) > 1                                                         *)
NeedsStdev(values) == Len(values) > 1

GetStats(values) ==
    [mean |-> Mean(values),
     max |-> Max(values),
     min |-> Min(values),
     std |-> IF NeedsStdev(values) THEN Stdev(values) ELSE ZeroStd]

CalculateUploadStats(list) ==
    LET blob_upload_times ==
            [i \in DOMAIN list |-> list[i].blob_upload_time_elapsed]
        metadata_upload_times ==
            [i \in DOMAIN list |-> list[i].metadata_upload_time_elapsed]
    IN [state |-> "computed",
        blob |-> [upload_time |-> GetStats(blob_upload_times)],
        metadata |-> [upload_time |-> GetStats(metadata_upload_times)]]

(* len(ok_uploads) > 0                                                     *)
HasOkUploads(list) == Len(list) > 0

(* upload() reaches its statistics step with the list of ok results.       *)
StatsInit ==
    /\ timings \in TimingLists
    /\ upload_statistics = NoStats
    /\ platform = "linux"
    /\ threads = 1
    /\ sumo_mode = "copy"
    /\ sumo_parent_id = CaseUuid
    /\ metadata = << >>
    /\ sumo_object_id = << >>
    /\ file_parent_id = << >>
    /\ path = << >>
    /\ on_disk = << >>
    /\ pc = << >>
    /\ result = << >>
    /\ upload_response = << >>
    /\ calls = << >>
    /\ sent_format = << >>
    /\ outcome = << >>
    /\ objects = {}
    /\ blobs = {}
    /\ queue = << >>
    /\ phase = "no_batch"
    /\ idx = 1
    /\ ok_uploads = << >>
    /\ failed_uploads = << >>
    /\ rejected_uploads = << >>
    /\ raised = "none"
    /\ candidates = << >>
    /\ NoCase
    /\ disk_file = << >>
    /\ parameters_env = NoInjection
    /\ FilesConstructed
    /\ summary = NoSummary

(* upload_statistics = "": the list of ok results is empty.                *)
SkipStats ==
    /\ upload_statistics = NoStats
    /\ ~ HasOkUploads(timings)
    /\ upload_statistics' = [state |-> "empty"]
    /\ UNCHANGED << timings, case_vars, disk_vars, inputs, batch, on_disk,
                    store, phase, idx, buckets, raised >>

(* upload_statistics = _calculate_upload_stats(ok_uploads)                 *)
CalculateStats ==
    /\ upload_statistics = NoStats
    /\ HasOkUploads(timings)
    /\ upload_statistics' = CalculateUploadStats(timings)
    /\ UNCHANGED << timings, case_vars, disk_vars, inputs, batch, on_disk,
                    store, phase, idx, buckets, raised >>

StatsNext == SkipStats \/ CalculateStats

StatsSpec == StatsInit /\ [][StatsNext]_vars

(* ------------------------------ claims --------------------------------- *)

StatusCodeOf(u) == result[u].metadata_upload_response_status_code
BlobCodeOf(u) == result[u].blob_upload_response_status_code
CallsOf(u, names) == {i \in DOMAIN calls[u] : calls[u][i].call \in names}
UploadFilesEnded == phase \in {"done", "raised"}
Classified == ok_uploads \o failed_uploads \o rejected_uploads
(* The SEGYImport command of unit u was built (or was not needed): every   *)
(* error unit u met, if any, is an error of a store call, of the           *)
(* subprocess run or of a local removal.                                   *)
CommandBuilt(u) == outcome[u].blob # "cmdstr_raises"

(* C1: whenever the metadata POST returned 200/201 and the blob phase ends *)
(* with a status other than 200/201, exactly one delete is issued, against *)
(* the object id of that metadata response, after the blob attempt (it is  *)
(* the last call of the unit and none is made before the blob phase has    *)
(* ended), and the result status is "failed".                              *)
C1_CompensatingDelete ==
    \A u \in Units :
        (BlobCodeOf(u) \notin {None, 200, 201}) =>
            /\ StatusCodeOf(u) \in {200, 201}
            /\ pc[u] = "reconcile" => CallsOf(u, {"delete"}) = {}
            /\ Finished(u) =>
                /\ CallsOf(u, {"delete"}) = {Len(calls[u])}
                /\ calls[u][Len(calls[u])].id = ObjectIdFor(u)
                /\ outcome[u].blob # "darwin" =>
                       calls[u][Len(calls[u]) - 1].call \in {"blob", "segyimport"}
                /\ result[u].status = "failed"

C1_Witness ==
    \E u \in Units :
        /\ pc[u] = "returned"
        /\ outcome[u].blob = "TransportError"
        /\ outcome[u].delete = "deleted"
        /\ result[u].status = "failed"

(* C2: after upload_files has ended, whatever the store answered (a       *)
(* failing delete call included), the store holds no metadata object       *)
(* created by this upload without a blob.                                  *)
C2_NoOrphanMetadata ==
    (UploadFilesEnded /\ \A u \in Units : CommandBuilt(u)) => objects \ blobs = {}

(* C3: every result upload_to_sumo returns carries a status that is one of *)
(* "ok", "rejected", "failed".                                             *)
C3_StatusAlwaysPresent ==
    \A u \in Units :
        pc[u] = "returned" => result[u].status \in {"ok", "rejected", "failed"}

(* C4: when upload_files has ended, whatever the store answered, the       *)
(* three buckets hold exactly one result per dispatched unit.              *)
C4_OneResultPerUnit ==
    (UploadFilesEnded /\ \A u \in Units : CommandBuilt(u)) =>
        /\ Len(Classified) = Cardinality(Units)
        /\ \A u \in Units :
             Cardinality({i \in DOMAIN Classified : Classified[i].file = u}) = 1

(* C5: with a missing parent id (None or empty) upload_to_sumo returns     *)
(* "rejected" with metadata status code 500; no store call is ever made    *)
(* and the unit's metadata, sumo_object_id and sumo_parent_id stay as      *)
(* they were.                                                              *)
C5_GuardStep ==
    \A u \in Units :
        (pc[u] = "start" /\ pc'[u] # "start") =>
            /\ pc'[u] = "returned"
            /\ result'[u].status = "rejected"
            /\ result'[u].metadata_upload_response_status_code = 500
            /\ metadata'[u] = metadata[u]
            /\ sumo_object_id'[u] = sumo_object_id[u]
            /\ file_parent_id'[u] = file_parent_id[u]

C5_NoStoreCall ==
    /\ \A u \in Units : calls[u] = << >> /\ sumo_object_id[u] = None
    /\ objects = {} /\ blobs = {}

C5_MissingParentRejected ==
    /\ [][(sumo_parent_id \in {NoParent, ""}) => C5_GuardStep]_vars
    /\ []((sumo_parent_id \in {NoParent, ""}) => C5_NoStoreCall)

C5_Witness ==
    /\ sumo_parent_id = ""
    /\ \E u \in Units : pc[u] = "returned" /\ metadata[u].format = "segy"

(* C6: a unit whose metadata phase did not end with 200/201 has returned   *)
(* with no blob transfer, no subprocess, no delete, no local removal and   *)
(* no object id; and a blob transfer or subprocess of a unit is only ever  *)
(* started after its own metadata POST returned 200/201.                   *)
C6_ShortCircuit ==
    \A u \in Units :
        /\ (CallsOf(u, {"post"}) # {} /\ StatusCodeOf(u) \notin {200, 201}) =>
              /\ pc[u] = "returned"
              /\ CallsOf(u, {"blob", "segyimport", "delete"}) = {}
              /\ CallsOf(u, {"remove_data", "remove_yaml"}) = {}
              /\ on_disk[path[u]] = [data |-> TRUE, yaml |-> TRUE]
              /\ sumo_object_id[u] = None
        /\ \A i \in CallsOf(u, {"blob", "segyimport"}) :
              /\ i > 1
              /\ calls[u][1].call = "post"
              /\ outcome[u].meta.kind = "response"
              /\ outcome[u].meta.status_code \in {200, 201}

C6_Witness ==
    \E u, v \in Units :
        /\ pc[u] = "returned"
        /\ outcome[u].meta.kind = "response"
        /\ outcome[u].meta.status_code = 202
        /\ CallsOf(v, {"blob"}) # {}

(* C7: a timeout or connection error of the metadata POST gives "failed"   *)
(* with status code 500, an HTTP status error gives "rejected" with the    *)
(* status code of the response and a text of at most 250 characters, any   *)
(* other exception gives "failed" with status code 500.                    *)
C7_MetadataClassification ==
    \A u \in Units :
        LET a == outcome[u].meta
        IN  /\ a.kind \in {"TransportError", "Exception"} =>
                  /\ result[u].status = "failed"
                  /\ StatusCodeOf(u) = 500
            /\ a.kind = "HTTPStatusError" =>
                  /\ result[u].status = "rejected"
                  /\ StatusCodeOf(u) = a.status_code
                  /\ result[u].metadata_upload_response_text <= 250
                  /\ result[u].metadata_upload_response_text <= a.text

C7_Witness ==
    \E u, v \in Units :
        /\ outcome[u].meta.kind = "HTTPStatusError"
        /\ outcome[u].meta.text > 250
        /\ result[u].metadata_upload_response_text = 250
        /\ outcome[v].meta.kind = "TransportError"
        /\ pc[u] = "returned" /\ pc[v] = "returned"

(* C8: an exception of the metadata POST, of the blob transfer, of the     *)
(* SEGYImport run, of the compensating delete or of the local removal      *)
(* never leaves upload_to_sumo, and so never makes upload_files raise.     *)
C8_NeverRaises ==
    (\A u \in Units : CommandBuilt(u)) =>
        /\ \A u \in Units : pc[u] # "raised"
        /\ raised # "task_exception"

(* C9: when upload_files has ended, a unit that met a timeout or           *)
(* connection error on one of its store calls is in failed_uploads, and    *)
(* every other unit whose upload returned a result with a status has that  *)
(* result in the buckets.                                                  *)
MetTransportError(u) ==
    \/ outcome[u].meta.kind = "TransportError"
    \/ outcome[u].blob = "TransportError"
    \/ outcome[u].delete = "TransportError"

C9_TimeoutIsolated ==
    UploadFilesEnded =>
        \A u \in Units :
            MetTransportError(u) =>
                /\ \E i \in DOMAIN failed_uploads : failed_uploads[i].file = u
                /\ \A v \in Units \ {u} :
                      (pc[v] = "returned" /\ result[v].status # NoStatus
                            /\ ~ MetTransportError(v)) =>
                          \E i \in DOMAIN Classified : Classified[i] = result[v]

(* C10: no result is put into a bucket, and the classification loop does   *)
(* not start, while an upload of the batch is queued or in flight.         *)
C10_Barrier ==
    (phase \in {"classify", "done", "raised"} \/ idx > 1 \/ Classified # << >>) =>
        /\ queue = << >>
        /\ \A u \in Units : Finished(u)

C10_Witness ==
    /\ phase = "classify"
    /\ Cardinality(Units) = 2
    /\ threads = 2
    /\ idx = 2
    /\ Len(Classified) = 1

(* How often a result occurs in a bucket.                                  *)
Occurrences(r, bucket) == Cardinality({i \in DOMAIN bucket : bucket[i] = r})

(* C11: upload_files partitions the results by status: every classified    *)
(* result is in exactly one bucket, in ok_uploads iff its status is "ok",  *)
(* in rejected_uploads iff "rejected", in failed_uploads iff "failed"; the *)
(* buckets hold the results unchanged and nothing else.                    *)
C11_Partition ==
    (phase \in {"classify", "done"}) =>
        /\ Len(Classified) = idx - 1
        /\ \A u \in 1..(idx - 1) :
              /\ Occurrences(result[u], Classified) = 1
              /\ Occurrences(result[u], ok_uploads) = 1 <=> result[u].status = "ok"
              /\ Occurrences(result[u], rejected_uploads) = 1
                    <=> result[u].status = "rejected"
              /\ Occurrences(result[u], failed_uploads) = 1
                    <=> result[u].status = "failed"

C11_Witness ==
    /\ phase = "done"
    /\ Len(rejected_uploads) = 1
    /\ Len(ok_uploads) = 1
    /\ result[1].status = "rejected"
    /\ result[2].status = "ok"

(* C12: upload_files raises exactly when a result that reaches the         *)
(* classification carries no status, the exception is a ValueError, and no *)
(* buckets are returned then.                                              *)
C12_OnlyValueError ==
    (\A u \in Units : CommandBuilt(u)) =>
    /\ (phase = "raised") =>
          /\ raised = "ValueError"
          /\ idx \in Units
          /\ result[idx].status = NoStatus
    /\ (phase = "done") => \A u \in Units : result[u].status # NoStatus

(* Both phases of unit u were confirmed with 200/201.                      *)
Confirmed(u) == StatusCodeOf(u) \in {200, 201} /\ BlobCodeOf(u) \in {200, 201}

(* C14: in copy mode (also the default of upload_files) the local files    *)
(* are left alone: no removal is attempted and the data file and the       *)
(* sidecar of every unit exist in every state, whatever the outcome.       *)
C14_CopyKeepsFiles ==
    (sumo_mode = "copy") =>
        \A u \in Units :
            /\ CallsOf(u, {"remove_data", "remove_yaml"}) = {}
            /\ pc[u] \notin RemovalSteps
            /\ on_disk[path[u]] = [data |-> TRUE, yaml |-> TRUE]

C14_Witness ==
    /\ sumo_mode = "copy"
    /\ phase = "done"
    /\ \E u \in Units : result[u].status = "ok"
    /\ \E u \in Units : result[u].status = "failed"
    /\ \A u \in Units : on_disk[path[u]] = [data |-> TRUE, yaml |-> TRUE]

C16_RemovalNeverRaises ==
    \A u \in Units :
        Confirmed(u) =>
            /\ pc[u] # "raised"
            /\ pc[u] \in RemovalSteps \cup {"returned"} => result[u].status = "ok"
            /\ outcome[u].remove = "error" =>
                  (pc[u] = "returned" /\ result[u].status = "ok")

(* Two workers both saw the data file and both called os.remove on it.     *)
C16_Witness ==
    /\ phase = "done"
    /\ Cardinality(Units) = 2
    /\ path[1] = path[2]
    /\ CallsOf(1, {"remove_data"}) # {}
    /\ CallsOf(2, {"remove_data"}) # {}
    /\ Len(ok_uploads) = 2
    /\ \E u \in Units : outcome[u].remove = "error"

(* upload() of the case object has returned or raised.                     *)
UploadEnded == case_pc \in {"returned", "upload_raised"}

(* C13: with mode "move" given to the case in any letter case, after       *)
(* upload() returns every unit whose result is "ok" has neither its data   *)
(* file nor its sidecar on disk.                                           *)
C13_MoveReachesUpload ==
    (case_pc = "returned" /\ Lower(case_mode) = "move") =>
        \A u \in Units :
            result[u].status = "ok" =>
                on_disk[path[u]] = [data |-> FALSE, yaml |-> FALSE]

(* The candidates add_files can turn into a FileOnDisk.                    *)
ValidPositions == {i \in DOMAIN candidates : candidates[i].valid}

(* C17: add_files leaves every candidate whose construction fails out of   *)
(* the pending list with one warning each and appends every other          *)
(* candidate in discovery order; upload() then hands exactly the valid     *)
(* candidates to upload_files.                                             *)
C17_AddFilesBestEffort ==
    /\ ~ added => (files = << >> /\ skipped = 0)
    /\ added =>
          /\ case_pc \in {"constructed", "uploading", "returned", "upload_raised"}
          /\ {files[k] : k \in DOMAIN files} = ValidPositions
          /\ \A k, l \in DOMAIN files : k < l => files[k] < files[l]
          /\ skipped = Len(candidates) - Cardinality(ValidPositions)
    /\ (case_pc \in {"uploading", "returned"} /\ phase # "no_batch") =>
          /\ {path[u] : u \in Units} = ValidPositions
          /\ \A u \in Units :
                /\ path[u] = files[u]
                /\ IsSeismic(metadata[u]) <=> IsSeismic(candidates[path[u]])
          /\ (phase = "done") =>
                {Classified[i].file : i \in DOMAIN Classified} = DOMAIN files

C17_Witness ==
    /\ Len(candidates) = 2
    /\ ~ candidates[1].valid
    /\ candidates[2].valid
    /\ skipped = 1
    /\ files = << 2 >>
    /\ case_pc = "returned"
    /\ Len(ok_uploads) = 1
    /\ path[ok_uploads[1].file] = 2

(* C18: upload() on a registered case with no pending file returns (an     *)
(* empty result), does not raise and makes no store call.                  *)
C18_EmptyUploadReturns ==
    (case_parent_id = CaseUuid /\ files = << >>) =>
        /\ case_pc # "upload_raised"
        /\ objects = {}

(* C19: when the store answers the metadata POST of a file with 404,       *)
(* upload() puts the file into rejected_uploads, warns that the case is    *)
(* not registered and does not raise.                                      *)
C19_NotRegisteredWarning ==
    (/\ UploadEnded
     /\ \E u \in Units : outcome[u].meta.kind = "HTTPStatusError"
                            /\ outcome[u].meta.status_code = 404
     /\ \A u \in Units : CommandBuilt(u) /\ outcome[u].delete # "TransportError") =>
        /\ case_pc = "returned"
        /\ \A u \in Units :
              (outcome[u].meta.kind = "HTTPStatusError"
                    /\ outcome[u].meta.status_code = 404) =>
                  \E i \in DOMAIN rejected_uploads : rejected_uploads[i].file = u
        /\ "not_registered" \in warnings

(* C20: constructing a case from metadata that is absent, invalid or lacks *)
(* fmu.case.uuid succeeds and yields a case whose parent id is None.       *)
C20_ConstructionSucceeds ==
    (case_metadata \in {"no_uuid", "absent"} /\ case_pc \notin {"new", "no_case"}) =>
        /\ case_pc # "construct_raised"
        /\ case_parent_id = NoParent

(* An upload() call with register_case false on a case whose parent id is  *)
(* None: it warns, returns None, and leaves the batch, the store, the      *)
(* local files and the state of upload_files as they were.                 *)
C21_SkipStep ==
    \A t \in 1..MaxThreads, a \in RegisterAnswers :
        (case_parent_id = NoParent /\ UploadCall(t, FALSE, a)) =>
            /\ case_pc' = "returned"
            /\ case_return' = "None"
            /\ "not_registered" \in warnings'
            /\ case_parent_id' = NoParent
            /\ UNCHANGED << batch, store, on_disk, phase, buckets, files >>

(* C21: while the parent id of the case is None, upload() with             *)
(* register_case false issues no metadata POST, no blob transfer and no    *)
(* delete for any pending unit, gives a warning and returns without        *)
(* raising.                                                                *)
C21_NoUploadWhileUnregistered ==
    /\ [][C21_SkipStep]_vars
    /\ [](case_return = "None" =>
            /\ case_pc = "returned"
            /\ phase = "no_batch"
            /\ \A u \in Units : calls[u] = << >>
            /\ objects = {}
            /\ blobs = {})

C21_Witness ==
    /\ case_return = "None"
    /\ case_parent_id = NoParent
    /\ files # << >>
    /\ "not_registered" \in warnings

(* C22: register() never raises; when the case-creation call fails it      *)
(* warns "Registering case on Sumo failed" and the case continues with     *)
(* parent id None; when it succeeds the parent id becomes the object id    *)
(* the store returned; the pending files are unchanged either way.         *)
C22_RegisterOutcome ==
    [][\A a \in RegisterAnswers :
          RegisterCall(a) =>
              /\ case_pc' = "constructed"
              /\ files' = files
              /\ (a = "raises") =>
                    /\ "registering_failed" \in warnings'
                    /\ case_parent_id' = NoParent
              /\ (a = "objectid") => case_parent_id' = CaseUuid]_vars

(* The metadata POST of unit u got a response with status 200 or 201.      *)
PostSucceeded(u) ==
    /\ outcome[u].meta.kind = "response"
    /\ outcome[u].meta.status_code \in {200, 201}

C26_Any2xxProceeds ==
    \A u \in Units :
        (/\ outcome[u].meta.kind = "response"
         /\ outcome[u].meta.status_code \in 200..299
         /\ pc[u] = "returned") =>
            /\ BlobCodeOf(u) # None
            /\ CallsOf(u, {"blob", "segyimport"}) # {} \/ BlobCodeOf(u) = 418

(* The list upload() returned.                                             *)
ReturnedList == IF case_return = "ok_uploads" THEN ok_uploads ELSE << >>

(* C24: upload() returns exactly the results whose status is "ok": every   *)
(* returned result has status "ok" and metadata and blob status in         *)
(* {200, 201}; every unit that ended "ok" is in the list; no failed or     *)
(* rejected result is.                                                     *)
C24_ReturnsOkResults ==
    (case_pc = "returned" /\ case_return # "None") =>
        /\ case_return = "ok_uploads"
        /\ \A i \in DOMAIN ReturnedList :
              /\ ReturnedList[i].status = "ok"
              /\ ReturnedList[i].metadata_upload_response_status_code \in {200, 201}
              /\ ReturnedList[i].blob_upload_response_status_code \in {200, 201}
              /\ ReturnedList[i] = result[ReturnedList[i].file]
        /\ \A u \in Units :
              result[u].status = "ok" <=>
                  Occurrences(result[u], ReturnedList) = 1

C24_Witness ==
    /\ case_pc = "returned"
    /\ Cardinality(Units) = 2
    /\ Len(ReturnedList) = 1
    /\ \E u \in Units : result[u].status = "failed"

(* data.format in the sidecar unit u was built from.                       *)
FormatOnDisk(u) == candidates[path[u]].format

(* C25: the metadata POST of a unit whose data.format is "segy" or         *)
(* "openvds" carries data.format "openvds"; the POST of every other unit   *)
(* carries data.format unchanged.                                          *)
C25_FormatRewrite ==
    \A u \in Units :
        CallsOf(u, {"post"}) # {} =>
            /\ FormatOnDisk(u) \in {"segy", "openvds"} => sent_format[u] = "openvds"
            /\ FormatOnDisk(u) \notin {"segy", "openvds"} =>
                  sent_format[u] = FormatOnDisk(u)
            /\ metadata[u].format = sent_format[u]

C25_Witness ==
    /\ Cardinality(Units) = 2
    /\ FormatOnDisk(1) = "segy"
    /\ sent_format[1] = "openvds"
    /\ FormatOnDisk(2) = "irap_binary"
    /\ sent_format[2] = "irap_binary"

(* C27: the statistics of upload() are computed only when there is an ok   *)
(* result; for each phase std is 0 when there are fewer than two ok        *)
(* results, and min <= mean <= max for any number of them.                 *)
PhaseStats(st) == {st.blob.upload_time, st.metadata.upload_time}
C27_UploadStatistics ==
    /\ upload_statistics.state = "computed" <=>
            (upload_statistics # NoStats /\ Len(timings) >= 1)
    /\ upload_statistics.state = "computed" =>
            \A st \in PhaseStats(upload_statistics) :
                /\ Len(timings) < 2 => st.std = ZeroStd
                /\ st.min * st.mean.den <= st.mean.num
                /\ st.mean.num <= st.max * st.mean.den
                /\ st.mean.den = Len(timings)
C27_Witness ==
    /\ Len(timings) = 1
    /\ upload_statistics.state = "computed"
    /\ \A st \in PhaseStats(upload_statistics) :
           st.std = ZeroStd /\ st.min = st.max /\ st.min > 0
C27_PairReached ==
    /\ Len(timings) = 2
    /\ upload_statistics.state = "computed"
    /\ \A st \in PhaseStats(upload_statistics) :
           /\ st.min * st.mean.den < st.mean.num
           /\ st.mean.num < st.max * st.mean.den
           /\ st.std # ZeroStd

(* C28: at any moment at most `threads` units are between the start and    *)
(* the end of upload_to_sumo; a unit is started once, by one worker, which *)
(* runs it to its end; a step of a worker writes the state of its own unit *)
(* only.                                                                   *)
Waiting(u) == pc[u] \in {"pending", "queued"}
Between == {u \in Units : ~ Waiting(u) /\ ~ Finished(u)}
LocalState(u) ==
    << metadata[u], sumo_object_id[u], file_parent_id[u], pc[u], result[u],
       upload_response[u], calls[u], sent_format[u], outcome[u],
       on_disk[path[u]] >>
C28_WorkerStep ==
    /\ \A u \in Units :
          /\ ~ Waiting(u) => ~ Waiting(u)'
          /\ Finished(u) => LocalState(u)' = LocalState(u)
          /\ (pc[u] = "queued" /\ pc'[u] # "queued") =>
                (pc'[u] = "start" /\ Cardinality(Between) < threads)
    /\ phase = "running" =>
          Cardinality({u \in Units : LocalState(u)' # LocalState(u)}) <= 1
C28_BoundedParallelism ==
    /\ [][C28_WorkerStep]_vars
    /\ [](Cardinality(Between) <= threads)
C28_Witness ==
    /\ threads = 1
    /\ Cardinality(Units) = 2
    /\ Between = {1}
    /\ pc[2] = "queued"
    /\ calls[1] # << >>

(* C29: for a seismic unit whose metadata POST returned 200/201: on macOS  *)
(* the blob status is 418 and no subprocess is started; elsewhere return   *)
(* code 0 of SEGYImport gives blob status 200 and the result "ok", a       *)
(* non-zero return code or an exception of the subprocess gives 418; every *)
(* 418 ends with status "failed" and the compensating delete; the bytes of *)
(* a seismic unit are never sent with the direct blob transfer.            *)
BlobPhaseEnded(u) == pc[u] \in {"reconcile", "returned", "raised"} \cup RemovalSteps
C29_SeismicBlobPhase ==
    \A u \in Units :
        (IsSeismic(metadata[u]) /\ StatusCodeOf(u) \in {200, 201}) =>
            /\ CallsOf(u, {"blob"}) = {}
            /\ Cardinality(CallsOf(u, {"segyimport"})) <= 1
            /\ platform = "darwin" =>
                  /\ CallsOf(u, {"segyimport"}) = {}
                  /\ BlobPhaseEnded(u) => BlobCodeOf(u) = 418
            /\ outcome[u].blob = "returncode_0" =>
                  /\ platform # "darwin"
                  /\ BlobCodeOf(u) = 200
                  /\ Finished(u) => result[u].status = "ok"
                  /\ CallsOf(u, {"delete"}) = {}
            /\ outcome[u].blob \in {"returncode_nonzero", "run_raises"} =>
                  /\ platform # "darwin"
                  /\ BlobCodeOf(u) = 418
            /\ (BlobCodeOf(u) = 418 /\ Finished(u)) =>
                  /\ result[u].status = "failed"
                  /\ Cardinality(CallsOf(u, {"delete"})) = 1
                  /\ calls[u][Len(calls[u])] =
                        [call |-> "delete", id |-> sumo_object_id[u]]
C29_Witness ==
    /\ platform # "darwin"
    /\ Cardinality(Units) = 2
    /\ \A u \in Units : IsSeismic(metadata[u]) /\ Finished(u)
    /\ outcome[1].blob = "returncode_0" /\ result[1].status = "ok"
    /\ outcome[2].blob = "run_raises" /\ result[2].status = "failed"
    /\ outcome[2].delete = "deleted"
C29_DarwinReached ==
    /\ platform = "darwin"
    /\ \E u \in Units :
          /\ IsSeismic(metadata[u]) /\ Finished(u)
          /\ BlobCodeOf(u) = 418 /\ result[u].status = "failed"
          /\ outcome[u].delete = "deleted"

(* C30: no automatic retry: within one upload() call a unit gets at most   *)
(* one metadata POST and at most one blob transfer, whatever its outcome;  *)
(* a second upload() call makes every file of the case pending again, the  *)
(* ones already uploaded included, and every accepted POST of it creates   *)
(* an object the store did not hold before.                                *)
PostAccepted(u) ==
    /\ Len(calls[u])' = Len(calls[u]) + 1
    /\ calls'[u][Len(calls'[u])].call = "post"
    /\ result'[u].metadata_upload_response_status_code \in {200, 201}
C30_Step ==
    /\ (case_pc = "returned" /\ case_pc' = "uploading") =>
          /\ uploads' = uploads + 1
          /\ DOMAIN pc' = 1..Len(files)
          /\ \A u \in DOMAIN pc' : pc'[u] = "pending" /\ calls'[u] = << >>
    /\ case_pc = "uploading" /\ case_pc' = "uploading" =>
          \A u \in Units :
              /\ Finished(u) => calls'[u] = calls[u]
              /\ PostAccepted(u) =>
                    /\ sumo_object_id'[u] \notin objects
                    /\ sumo_object_id'[u] # sumo_object_id[u]
                    /\ objects' = objects \cup {sumo_object_id'[u]}
C30_FailedNotRetried ==
    /\ uploads = 1
    /\ case_pc = "returned"
    /\ Len(failed_uploads) = 1
    /\ Cardinality(CallsOf(1, {"post"})) = 1
    /\ Cardinality(CallsOf(1, {"blob"})) = 1

(* C31: byte_string and the digest fields blob_size and blob_md5 of a unit *)
(* are set at construction from the same bytes and no step changes them,   *)
(* over any number of upload() calls; the digest in every metadata POST is *)
(* the digest of the unit's bytes, and the bytes of every blob transfer    *)
(* are those bytes.                                                        *)
DigestSent(u) == sent_payload[u].digest # NoDigest
BytesSent(u) == sent_payload[u].bytes # NoBytes
C31_Step ==
    \A u \in Units \cap DOMAIN metadata' :
        /\ byte_string'[u] = byte_string[u]
        /\ blob_digest'[u] = blob_digest[u]
C31_State ==
    \A u \in Units :
        /\ blob_digest[u].blob_size = Len(byte_string[u])
        /\ blob_digest[u].blob_md5 = Md5(byte_string[u])
        /\ DigestSent(u) <=> CallsOf(u, {"post"}) # {}
        /\ BytesSent(u) <=> CallsOf(u, {"blob"}) # {}
        /\ DigestSent(u) => sent_payload[u].digest = blob_digest[u]
        /\ BytesSent(u) =>
              /\ sent_payload[u].bytes = byte_string[u]
              /\ DigestSent(u)
              /\ sent_payload[u].digest.blob_md5 = Md5(sent_payload[u].bytes)
              /\ sent_payload[u].digest.blob_size = Len(sent_payload[u].bytes)
C31_PayloadAndDigestFixed == [][C31_Step]_vars /\ []C31_State
C31_Witness ==
    /\ uploads = 2
    /\ 1 \in Units
    /\ case_pc = "returned"
    /\ BytesSent(1)
    /\ sent_payload[1].digest.blob_md5 = Md5(disk_file[path[1]].bytes)
    /\ Cardinality(blobs) = 2
C31_EmptyPayloadReached ==
    /\ case_pc = "no_case"
    /\ 1 \in Units
    /\ BytesSent(1)
    /\ byte_string[1] = << >>
    /\ sent_payload[1].digest.blob_size = 0

(* ------------- upload() with the injection of a parameters unit -------- *)

InjectFiles == 1

(* A case whose realization files, stored parameters record, config file   *)
(* and parameters file may each be present or absent.                      *)
InjectInit ==
    /\ platform = "linux"
    /\ case_metadata = "valid"
    /\ case_mode = "copy"
    /\ candidates = [p \in 1..InjectFiles |-> [valid |-> TRUE, format |-> "json"]]
    /\ case_pc = "new"
    /\ case_parent_id = NoParent
    /\ added = FALSE
    /\ files = << >>
    /\ skipped = 0
    /\ warnings = {}
    /\ case_return = "none"
    /\ uploads = 0
    /\ calls_allowed = 1
    /\ threads = 1
    /\ sumo_mode = DefaultMode
    /\ sumo_parent_id = NoParent
    /\ metadata = << >>
    /\ sumo_object_id = << >>
    /\ file_parent_id = << >>
    /\ path = << >>
    /\ on_disk = [p \in DOMAIN candidates |-> [data |-> TRUE, yaml |-> TRUE]]
    /\ pc = << >>
    /\ result = << >>
    /\ upload_response = << >>
    /\ calls = << >>
    /\ sent_format = << >>
    /\ outcome = << >>
    /\ objects = {}
    /\ blobs = {}
    /\ queue = << >>
    /\ phase = "no_batch"
    /\ idx = 1
    /\ ok_uploads = << >>
    /\ failed_uploads = << >>
    /\ rejected_uploads = << >>
    /\ raised = "none"
    /\ NoStatsRun
    /\ disk_file \in [DOMAIN on_disk -> [bytes : {<<"a">>}, realization : BOOLEAN]]
    /\ parameters_env \in [record : {"held", "none", "unreachable"},
                          config : BOOLEAN, parameters : BOOLEAN]
    /\ FilesConstructed
    /\ summary = NoSummary

InjectSpec == (InjectInit \/ DirectInit) /\ [][CaseNext]_vars

(* The batch has been handed to _upload_files and the injection step of    *)
(* Dispatch is over, for a batch with a realization unit and a store that  *)
(* answers the search.                                                     *)
InjectionDecided ==
    /\ case_pc = "uploading"
    /\ phase # "idle"
    /\ \E u \in 1..Len(files) : realization[u]
    /\ parameters_env.record # "unreachable"
InjectionRaised == raised \in {"search_raises", "read_raises"}
InjectedUnits == {u \in Units : path[u] = EmptyPath}

(* C32: when the store holds a parameters record, or the config file or    *)
(* the parameters file is absent, no unit is injected, nothing is raised   *)
(* and the batch is dispatched unchanged; when there is no record and both *)
(* files are readable, exactly one parameters unit is appended.            *)
C32_InjectionOptional ==
    InjectionDecided =>
        IF \/ parameters_env.record = "held"
           \/ ~ parameters_env.config
           \/ ~ parameters_env.parameters
          THEN /\ ~ InjectionRaised
               /\ InjectedUnits = {}
               /\ phase \in {"running", "classify", "done", "raised"}
          ELSE /\ ~ InjectionRaised
               /\ InjectedUnits = {Len(files) + 1}
               /\ path[Len(files) + 1] = EmptyPath
(* What holds of the code: the same, except that an absent parameters file *)
(* is not tolerated.                                                       *)
C32_ConfigOrRecordSkips ==
    InjectionDecided =>
        IF parameters_env.record = "held" \/ ~ parameters_env.config
          THEN ~ InjectionRaised /\ InjectedUnits = {}
          ELSE parameters_env.parameters =>
                 /\ ~ InjectionRaised
                 /\ InjectedUnits = {Len(files) + 1}
                 /\ path[Len(files) + 1] = EmptyPath
C32_AbsentParametersRaises ==
    /\ InjectionDecided
    /\ parameters_env.record = "none"
    /\ parameters_env.config
    /\ ~ parameters_env.parameters
    /\ raised = "read_raises"
    /\ phase = "raised"
C32_InjectedReached ==
    /\ InjectionDecided
    /\ parameters_env.parameters
    /\ InjectedUnits # {}
    /\ phase = "done"

(* C33: the store is queried and a unit may be injected only if some unit  *)
(* of the batch has fmu.realization; a batch with no such unit is          *)
(* dispatched as it is and yields one result per unit.                     *)
HasRealizationUnit == \E u \in 1..Len(files) : realization[u]
ResultCount == Len(ok_uploads) + Len(failed_uploads) + Len(rejected_uploads)
C33_NoRealizationDispatchedAsIs ==
    (case_pc = "uploading" /\ phase # "idle") =>
        /\ (InjectionRaised \/ InjectedUnits # {}) => HasRealizationUnit
        /\ ~ HasRealizationUnit =>
              /\ raised # "AttributeError"
              /\ phase \in {"running", "classify", "done", "raised"}
              /\ phase = "done" => ResultCount = Len(files)
(* What holds of the code: the query and the injection need a realization  *)
(* unit, and without one _upload_files raises before any unit is run.      *)
C33_NoRealizationRaises ==
    (case_pc = "uploading" /\ phase # "idle") =>
        /\ (InjectionRaised \/ InjectedUnits # {}) => HasRealizationUnit
        /\ ~ HasRealizationUnit =>
              /\ phase = "raised"
              /\ raised = "AttributeError"
              /\ \A u \in Units : pc[u] = "pending" /\ calls[u] = << >>
C33_RaisedReached ==
    /\ case_pc = "upload_raised"
    /\ files # << >>
    /\ ~ HasRealizationUnit
    /\ raised = "AttributeError"
    /\ objects = {}

(* C37: the results are collected in input order: each of the lists        *)
(* ok_uploads, failed_uploads and rejected_uploads holds its results in    *)
(* the relative order of the batch, an injected parameters unit being the  *)
(* last of the batch, whatever the worker count and the interleaving.      *)
InBatchOrder(bucket) ==
    /\ \A i \in DOMAIN bucket :
          /\ bucket[i].file \in Units
          /\ bucket[i] = result[bucket[i].file]
    /\ \A i, j \in DOMAIN bucket : i < j => bucket[i].file < bucket[j].file
InjectedLast(bucket) ==
    \A i \in DOMAIN bucket :
        bucket[i].file \in InjectedUnits =>
            /\ i = Len(bucket)
            /\ bucket[i].file = Cardinality(Units)
C37_ResultsInInputOrder ==
    /\ InBatchOrder(ok_uploads) /\ InjectedLast(ok_uploads)
    /\ InBatchOrder(failed_uploads) /\ InjectedLast(failed_uploads)
    /\ InBatchOrder(rejected_uploads) /\ InjectedLast(rejected_uploads)
    /\ phase \in {"classify", "done"} =>
          \A u \in 1..(idx - 1) :
              \E i \in 1..3 :
                  LET b == << ok_uploads, failed_uploads, rejected_uploads >>[i]
                  IN  \E k \in DOMAIN b : b[k].file = u
C37_Witness ==
    /\ phase = "done"
    /\ threads > 1
    /\ InjectedUnits # {}
    /\ Len(ok_uploads) = Cardinality(Units)
    /\ ok_uploads[Len(ok_uploads)].file \in InjectedUnits
    /\ ok_uploads[1].file = 1
C37_LaterFinishedFirst ==
    /\ phase = "running"
    /\ InjectedUnits # {}
    /\ \E u \in InjectedUnits : pc[u] = "returned"
    /\ pc[1] \notin {"returned", "raised", "pending", "queued"}

(* C38: upload() does not change the list of files of the case: the batch  *)
(* handed to upload_files is a copy, and the injected parameters unit is   *)
(* appended to the copy only.                                              *)
InUpload == case_pc = "uploading"
C38_Step ==
    (InUpload \/ InUpload') => files' = files
C38_State ==
    case_pc \in {"uploading", "returned", "upload_raised"} =>
        /\ \A i \in DOMAIN files : files[i] \in DOMAIN candidates
        /\ (files # << >> /\ phase \notin {"no_batch"}) =>
              /\ \A i \in DOMAIN files : path[i] = files[i]
              /\ Cardinality(Units) = Len(files) + Cardinality(InjectedUnits)
C38_FilesListUnchanged == [][C38_Step]_vars /\ []C38_State
C38_Witness ==
    /\ case_pc = "returned"
    /\ InjectedUnits # {}
    /\ Cardinality(Units) = Len(files) + 1
    /\ files = [i \in 1..InjectFiles |-> i]
    /\ Len(ok_uploads) = Cardinality(Units)

(* C39: in the summary of upload(), ok_files + failed_files +              *)
(* rejected_files = total_files_count, for every batch, one with an        *)
(* injected parameters unit included.                                      *)
SummaryBuilt == summary # NoSummary
CountedResults ==
    summary.ok_files + summary.failed_files + summary.rejected_files
C39_SummaryCountsAddUp ==
    SummaryBuilt => CountedResults = summary.total_files_count
(* What holds of the code: the three counts add up to the number of units  *)
(* dispatched, the total is the number of files of the case, and the two   *)
(* differ by the injected unit.                                            *)
C39_CountsOfDispatched ==
    SummaryBuilt =>
        /\ case_pc = "returned"
        /\ CountedResults = Cardinality(Units)
        /\ summary.total_files_count = Len(files)
        /\ CountedResults = summary.total_files_count + Cardinality(InjectedUnits)
C39_InjectedCounted ==
    /\ SummaryBuilt
    /\ InjectedUnits # {}
    /\ summary.ok_files = summary.total_files_count + 1

(* C36: under concurrent workers every compensating delete targets the     *)
(* object id returned by the metadata POST of the same unit in the same    *)
(* upload attempt: no worker deletes an object created for another unit,   *)
(* and no delete is issued for a unit whose blob phase returned 200/201.   *)
DeletesOf(u) == {calls[u][k].id : k \in CallsOf(u, {"delete"})}
IdsOfThisAttempt(u) == {ObjectIdFor(u)}
IdsOfOthers(u) ==
    {100 * a + v : a \in 0..uploads, v \in Units} \ IdsOfThisAttempt(u)
C36_State ==
    \A u \in Units :
        /\ DeletesOf(u) \subseteq IdsOfThisAttempt(u)
        /\ DeletesOf(u) \cap IdsOfOthers(u) = {}
        /\ \A v \in Units \ {u} : sumo_object_id[v] \notin DeletesOf(u)
        /\ DeletesOf(u) # {} =>
              /\ sumo_object_id[u] \in DeletesOf(u)
              /\ StatusCodeOf(u) \in {200, 201}
              /\ CallsOf(u, {"post"}) # {}
              /\ BlobCodeOf(u) \notin {200, 201}
        /\ BlobCodeOf(u) \in {200, 201} => CallsOf(u, {"delete"}) = {}
C36_Step ==
    \A o \in objects \ objects' :
        \E u \in Units :
            /\ o = sumo_object_id[u]
            /\ pc[u] = "reconcile"
            /\ pc'[u] = "returned"
            /\ Len(calls'[u]) = Len(calls[u]) + 1
            /\ \A v \in Units \ {u} : calls'[v] = calls[v]
C36_BothDeleted ==
    /\ threads = 2
    /\ Cardinality(Units) = 2
    /\ DeletesOf(1) # {} /\ DeletesOf(2) # {}
    /\ DeletesOf(1) \cap DeletesOf(2) = {}
    /\ objects = {}

(* ------------- a FileOnJob unit next to a FileOnDisk unit -------------- *)

JobFormats == {"irap_binary", "openvds"}

(* upload_files for a batch of two units with the same payload and the     *)
(* same metadata: unit 1 a FileOnDisk, unit 2 a FileOnJob built by         *)
(* FileOnJob(byte_string, metadata) as CaseOnJob.add_files builds it, with *)
(* no attribute `path`.                                                    *)
JobInit ==
    /\ platform = "linux"
    /\ threads \in 1..MaxThreads
    /\ sumo_mode = DefaultMode
    /\ sumo_parent_id \in {NoParent, CaseUuid}
    /\ \E f \in JobFormats : metadata = [u \in 1..2 |-> [format |-> f]]
    /\ sumo_object_id = [u \in DOMAIN metadata |-> None]
    /\ file_parent_id = [u \in DOMAIN metadata |-> NoParent]
    /\ path = << 1, NoPath >>
    /\ candidates = << >>
    /\ on_disk = [p \in {1} |-> [data |-> TRUE, yaml |-> TRUE]]
    /\ pc = [u \in DOMAIN metadata |-> "pending"]
    /\ result = [u \in DOMAIN metadata |-> EmptyResult]
    /\ upload_response = [u \in DOMAIN metadata |-> None]
    /\ calls = [u \in DOMAIN metadata |-> << >>]
    /\ sent_format = [u \in DOMAIN metadata |-> "none"]
    /\ outcome = [u \in DOMAIN metadata |-> NoOutcome]
    /\ objects = {}
    /\ blobs = {}
    /\ queue = << >>
    /\ phase = "idle"
    /\ idx = 1
    /\ ok_uploads = << >>
    /\ failed_uploads = << >>
    /\ rejected_uploads = << >>
    /\ raised = "none"
    /\ NoCase
    /\ NoStatsRun
    /\ disk_file = PlainDisk(DOMAIN on_disk)
    /\ parameters_env = NoInjection
    /\ byte_string = [u \in DOMAIN metadata |-> disk_file[1].bytes]
    /\ blob_digest = [u \in DOMAIN metadata |-> SumoDigest(disk_file[1].bytes)]
    /\ realization = [u \in DOMAIN metadata |-> TRUE]
    /\ sent_payload = [u \in DOMAIN metadata |-> NothingSent]
    /\ summary = NoSummary

JobSpec == (JobInit \/ DirectInit) /\ [][Next]_vars

(* C34: a unit added with CaseOnJob.add_files and a unit added with        *)
(* CaseOnDisk.add_files, with the same payload, the same metadata and the  *)
(* same store responses, go through the same sequence of store calls in    *)
(* upload_to_sumo and end with the same status.                            *)
CallKinds(u) == [k \in DOMAIN calls[u] |-> calls[u][k].call]
IsJobUnit(u) == path[u] = NoPath
SameInputs(u, v) ==
    /\ byte_string[u] = byte_string[v]
    /\ metadata[u] = metadata[v]
    /\ outcome[u].meta = outcome[v].meta
    /\ outcome[u].blob = outcome[v].blob
    /\ outcome[u].delete = outcome[v].delete
C34_SameUploadContract ==
    \A u, v \in Units :
        (IsJobUnit(v) /\ ~ IsJobUnit(u) /\ Finished(u) /\ Finished(v)
            /\ SameInputs(u, v)) =>
                /\ pc[v] = pc[u]
                /\ CallKinds(v) = CallKinds(u)
                /\ result[v].status = result[u].status
(* What holds of the code: the FileOnJob unit raises at the first          *)
(* statement of upload_to_sumo, before any store call and with no status.  *)
C34_JobUnitRaises ==
    \A v \in Units :
        (IsJobUnit(v) /\ pc[v] \notin {"pending", "queued"}) =>
            /\ pc[v] = "raised"
            /\ calls[v] = << >>
            /\ result[v].status = NoStatus
C34_DiskPostsJobRaised ==
    /\ Cardinality(Units) = 2
    /\ IsJobUnit(2)
    /\ pc[2] = "raised"
    /\ pc[1] = "returned"
    /\ result[1].status = "ok"
    /\ CallKinds(1) = << "post", "blob" >>

(* ------------- the entry point: sumo_upload_main / run ----------------- *)

EntryFiles == 1

EntryLists ==
    UNION {[1..n -> [valid : BOOLEAN, format : CaseFormats]] : n \in 0..EntryFiles}

(* sumo_upload_main(casepath, searchpath, env, metadata_path, threads)     *)
(* before its first statement.                                             *)
EntryInit ==
    /\ platform = "linux"
    /\ case_metadata \in CaseMetadataKinds
    /\ case_mode = "copy"
    /\ candidates \in EntryLists
    /\ case_pc = "main_start"
    /\ case_parent_id = NoParent
    /\ added = FALSE
    /\ files = << >>
    /\ skipped = 0
    /\ warnings = {}
    /\ case_return = "none"
    /\ uploads = 0
    /\ calls_allowed = 1
    /\ threads \in 1..MaxThreads
    /\ sumo_mode = DefaultMode
    /\ sumo_parent_id = NoParent
    /\ metadata = << >>
    /\ sumo_object_id = << >>
    /\ file_parent_id = << >>
    /\ path = << >>
    /\ on_disk = [p \in DOMAIN candidates |-> [data |-> TRUE, yaml |-> TRUE]]
    /\ pc = << >>
    /\ result = << >>
    /\ upload_response = << >>
    /\ calls = << >>
    /\ sent_format = << >>
    /\ outcome = << >>
    /\ objects = {}
    /\ blobs = {}
    /\ queue = << >>
    /\ phase = "no_batch"
    /\ idx = 1
    /\ ok_uploads = << >>
    /\ failed_uploads = << >>
    /\ rejected_uploads = << >>
    /\ raised = "none"
    /\ NoStatsRun
    /\ disk_file = PlainDisk(DOMAIN on_disk)
    /\ parameters_env = NoInjection
    /\ FilesConstructed
    /\ summary = NoSummary

entry_frame == << case_metadata, case_mode, case_parent_id, candidates, added,
                 files, skipped, case_return, uploads, calls_allowed, summary,
                 inputs, batch, on_disk, store, phase, buckets, stats_vars,
                 disk_vars >>

(* uploader.SumoConnection(env=env) returns the connection or raises.      *)
Connect ==
    /\ case_pc = "main_start"
    /\ \E ok \in BOOLEAN :
          case_pc' = IF ok THEN "new" ELSE "connect_raised"
    /\ UNCHANGED << warnings, entry_frame >>

(* if len(e.files) == 0: warn and return.                                  *)
MainNoFiles ==
    /\ case_pc = "constructed"
    /\ added
    /\ files = << >>
    /\ case_pc' = "main_returned"
    /\ warnings' = warnings \cup {"no_files_aborting"}
    /\ UNCHANGED entry_frame

(* e.upload(threads=threads): register_case keeps its default False.       *)
MainUpload ==
    /\ added
    /\ files # << >>
    /\ \E a \in RegisterAnswers : UploadCall(threads, FALSE, a)

(* upload() returned: "Upload done", and the function ends.                *)
MainDone ==
    /\ case_pc = "returned"
    /\ case_pc' = "main_returned"
    /\ UNCHANGED << warnings, entry_frame >>

(* Variant: the handler uses only names that are always bound.             *)
HandlerOutcome_AllBound(at) == "main_returned"

(* The except clause: it logs through sumo_connection, case_metadata_path  *)
(* and e.fmu_case_uuid; sumo_connection is unbound when the connection     *)
(* raised and e is unbound when the construction raised, so the handler    *)
(* raises UnboundLocalError itself; otherwise it logs and returns.         *)
HandlerOutcome(at) ==
    IF at \in {"connect_raised", "construct_raised"}
      THEN "main_raised" ELSE "main_returned"

Handler ==
    /\ case_pc \in {"connect_raised", "construct_raised", "upload_raised"}
    /\ case_pc' = HandlerOutcome(case_pc)
    /\ warnings' = warnings \cup {"problem_related_to_sumo_upload"}
    /\ UNCHANGED entry_frame

EntryNext ==
    \/ Connect
    \/ Construct
    \/ AddFiles
    \/ MainNoFiles
    \/ MainUpload
    \/ CaseReturn
    \/ MainDone
    \/ Handler
    \/ Next

EntrySpec == (EntryInit \/ DirectInit \/ JobInit) /\ [][EntryNext]_vars

(* C35: the entry point never lets an exception escape: whichever step     *)
(* fails (connection, construction of the case, adding files, uploading)   *)
(* it logs and returns normally; with zero files added it returns without  *)
(* calling upload().                                                       *)
MainEnded == case_pc \in {"main_returned", "main_raised"}
C35_NoExceptionEscapes ==
    /\ case_pc # "main_raised"
    /\ (MainEnded /\ files = << >>) => uploads = 0
(* What holds of the code: an exception escapes exactly when the           *)
(* connection or the construction of the case failed; a failure of         *)
(* upload() is logged and the function returns; with zero files upload()   *)
(* is not called.                                                          *)
C35_EscapesOnlyBeforeCase ==
    /\ case_pc = "main_raised" =>
          /\ case_parent_id = NoParent
          /\ ~ added
          /\ uploads = 0
          /\ objects = {}
    /\ (MainEnded /\ files = << >>) => uploads = 0
    /\ (MainEnded /\ case_parent_id # NoParent) => case_pc = "main_returned"
C35_ConstructionEscaped ==
    /\ case_pc = "main_raised"
    /\ case_metadata = "absent"
    /\ "problem_related_to_sumo_upload" \in warnings
C35_UploadFailureCaught ==
    /\ case_pc = "main_returned"
    /\ phase = "raised"
    /\ "problem_related_to_sumo_upload" \in warnings
C35_NoFilesReturned ==
    /\ case_pc = "main_returned"
    /\ added
    /\ files = << >>
    /\ uploads = 0
    /\ "no_files_aborting" \in warnings

(* ------------- upload() under fair scheduling -------------------------- *)

LiveFiles == 2

(* A case with LiveFiles files.                                            *)
LiveInit ==
    /\ platform = "linux"
    /\ case_metadata = "valid"
    /\ case_mode = "copy"
    /\ candidates = [p \in 1..LiveFiles |-> [valid |-> TRUE, format |-> "irap_binary"]]
    /\ case_pc = "new"
    /\ case_parent_id = NoParent
    /\ added = FALSE
    /\ files = << >>
    /\ skipped = 0
    /\ warnings = {}
    /\ case_return = "none"
    /\ uploads = 0
    /\ calls_allowed = 1
    /\ threads = 1
    /\ sumo_mode = DefaultMode
    /\ sumo_parent_id = NoParent
    /\ metadata = << >>
    /\ sumo_object_id = << >>
    /\ file_parent_id = << >>
    /\ path = << >>
    /\ on_disk = [p \in DOMAIN candidates |-> [data |-> TRUE, yaml |-> TRUE]]
    /\ pc = << >>
    /\ result = << >>
    /\ upload_response = << >>
    /\ calls = << >>
    /\ sent_format = << >>
    /\ outcome = << >>
    /\ objects = {}
    /\ blobs = {}
    /\ queue = << >>
    /\ phase = "no_batch"
    /\ idx = 1
    /\ ok_uploads = << >>
    /\ failed_uploads = << >>
    /\ rejected_uploads = << >>
    /\ raised = "none"
    /\ NoStatsRun
    /\ disk_file = PlainDisk(DOMAIN on_disk)
    /\ parameters_env = NoInjection
    /\ FilesConstructed
    /\ summary = NoSummary

(* The steps worker threads take for unit u.                               *)
WorkerStep(u) ==
    /\ u \in Units
    /\ \/ Take(u) \/ GuardReject(u) \/ UploadMetadata(u) \/ UploadBlob(u)
       \/ SegyOnDarwin(u) \/ SegyImport(u) \/ DeleteMetadata(u) \/ Succeed(u)
       \/ CheckData(u) \/ RemoveData(u) \/ CheckYaml(u) \/ RemoveYaml(u)

(* The steps of the thread that called upload_files.                       *)
CallerStep == Dispatch \/ Barrier \/ Classify \/ ReturnBuckets \/ CaseReturn

(* Every call of a worker returns or raises, and the scheduler lets every  *)
(* thread that can take a step take one; whether and when the caller calls *)
(* upload() or register() is left open.                                    *)
Fairness ==
    /\ WF_vars(CallerStep)
    /\ \A u \in 1..LiveFiles : WF_vars(WorkerStep(u))

LiveSpec == (LiveInit \/ DirectInit) /\ [][CaseNext]_vars /\ Fairness

(* C40: upload() always terminates: provided every call of a worker        *)
(* returns or raises, upload_files eventually ends and upload() eventually *)
(* returns or raises, and by then the task of every dispatched unit has    *)
(* ended (with its result, or with the exception the collector re-raises); *)
(* no worker waits for another: a started task always has a step to take.  *)
UploadRunning ==
    \/ case_pc = "uploading"
    \/ phase \in {"idle", "running", "classify"}
Dispatched(u) == pc[u] # "pending"
TasksEndedWithUpload ==
    ~ UploadRunning => \A u \in Units : Dispatched(u) => Finished(u)
C40_NoWorkerWaits == \A u \in Between : ENABLED WorkerStep(u)
C40_BothRunning ==
    /\ case_pc = "uploading"
    /\ Cardinality(Between) = 2

====
